---- MODULE Spec2Model ----
(***************************************************************************)
(* A model of ipcoal.Model (src/ipcoal/model.py): the RNG lifecycle, the   *)
(* three simulation entry points with their result storage, the           *)
(* compilation of the species tree and the admixture edges into msprime   *)
(* demography calls, the tensors of sim_loci and sim_snps cell by cell,    *)
(* and the calls on the stored data (apply_missing_mask, the inference,    *)
(* the distances, the writers).                                            *)
(*                                                                         *)
(* The coalescent engine (msprime) is external.  A value it returns is     *)
(* modelled by the inputs that determine it: a tree sequence by the random *)
(* seed handed to sim_ancestry (the stream and position it was drawn at),  *)
(* a mutated tree sequence by that plus the seed handed to sim_mutations.  *)
(* What the engine puts on a tree (whether a variant exists, how many      *)
(* mutations and alleles it has) and whether an engine call fails are      *)
(* nondeterministic inputs of the step that makes the call.                *)
(***************************************************************************)
EXTENDS Integers, Sequences, FiniteSets, TLC

VARIABLES
    init_tseed,     \* Model._init_tseed
    init_mseed,     \* Model._init_mseed
    rng_trees,      \* Model.rng_trees: [seed, pos], pos = values drawn so far
    rng_muts,       \* Model.rng_muts: [shared, seed, pos]; shared = same object as rng_trees
    ts_dict,        \* Model.ts_dict: locus index -> tree sequence
    df,             \* Model.df
    seqs,           \* Model.seqs
    ancestral_seq,  \* Model.ancestral_seq
    pc,             \* where the running top-level call is ("idle" between calls)
    call,           \* the arguments of the running call
    frame,          \* the local variables of the running call
    draws,          \* the seeds the running call has handed to the engine, in order
    ncalls,         \* number of top-level simulation calls started
    last,           \* the last finished call: [name, status, no, allok]
    dpc,            \* position of the demography compiler
    tree,           \* the species tree: [n, parent, height]
    admixture_edges,\* Model.admixture_edges
    ms_admix,       \* Model.ms_admix
    resolver_args,  \* the (heights, props) handed to the interval resolver, per call
    events,         \* _get_new_demography: the sorted list of events
    eidx,           \* _get_new_demography: number of events applied
    current,        \* the .current tag of every tree node
    demography,     \* the msprime Demography: [populations, calls]
    rate,           \* the local name 'rate' of _get_new_demography
    nsamples,       \* the nsamples argument of __init__
    samples,        \* Model.samples: the list of SampleSets
    self_nstips,    \* Model.nstips as _set_samples leaves it
    tipdict,        \* Model.tipdict: tip index k is at place k + 1
    edges_arg,      \* the admixture_edges argument of __init__
    alpha_ordered_names, \* Model.alpha_ordered_names
    reorder,        \* Model._reorder (tip indices, 0-based)
    ops             \* the finished post-simulation calls, oldest first

simvars == <<init_tseed, init_mseed, rng_trees, rng_muts, ts_dict, df, seqs,
             ancestral_seq, pc, call, frame, draws, ncalls, last>>
initvars == <<nsamples, samples, self_nstips, tipdict, edges_arg, alpha_ordered_names,
              reorder>>
postvars == <<ops>>
demvars == <<initvars, dpc, tree, admixture_edges, ms_admix, resolver_args, events, eidx, current,
             demography, rate>>
vars == <<simvars, demvars, postvars>>

(***************************************************************************)
(* Bounds of the model.                                                    *)
(***************************************************************************)
MaxSeed == 1        \* integer seeds are 0..MaxSeed
MaxCalls == 2       \* top-level simulation calls per model instance
MaxLoci == 2        \* nloci and nsnps arguments are at most this
MaxAttempts == 3    \* engine draws of one sim_snps call
MaxMuts == 2        \* mutations the engine puts on one site

\* Python's None, for an optional integer argument.
None == -1

\* sim_snps: the value that replaces a missing max_mutations / max_alleles.
NoLimit == 100000

\* The sampled haploid genomes (nstips); the sample configuration is fixed here.
nstips == 2

Max(a, b) == IF a >= b THEN a ELSE b
Min(a, b) == IF a <= b THEN a ELSE b

\* Python truthiness of an optional integer: None and 0 are falsy.
Truthy(x) == x # None /\ x # 0

(***************************************************************************)
(* RNG lifecycle.                                                          *)
(***************************************************************************)
\* Seeds np.random.default_rng(None) may take from the operating system.
Entropy == {MaxSeed + 1, MaxSeed + 2}

\* np.random.default_rng(seed): a new generator at position 0.
default_rng(seed, e) == [seed |-> IF seed = None THEN e ELSE seed, pos |-> 0]

\* The rng_muts attribute after _reset_random_generators.
ResetMuts(mseed) ==
    IF ~Truthy(mseed) THEN [shared |-> TRUE, seed |-> None, pos |-> 0]
    ELSE [shared |-> FALSE, seed |-> mseed, pos |-> 0]

\* The two streams as one value: [t |-> rng_trees, m |-> rng_muts].
Streams == [t |-> rng_trees, m |-> rng_muts]

\* _reset_random_generators: both streams rebuilt from the stored seeds.
ResetStreams(st, e) ==
    [t |-> default_rng(init_tseed, e), m |-> ResetMuts(init_mseed)]

\* The state of the generator rng_muts refers to.
MutsState(st) == IF st.m.shared THEN st.t ELSE [seed |-> st.m.seed, pos |-> st.m.pos]

\* rng_trees.integers(n): the value is determined by the stream and position.
DrawTrees(st) ==
    [val |-> [stream |-> "trees", seed |-> st.t.seed, pos |-> st.t.pos],
     st |-> [st EXCEPT !.t.pos = @ + 1]]

\* A mutation stream that is always a generator of its own: C25 fails under it.
DrawMutsOwn(st) ==
    [val |-> [stream |-> "muts", seed |-> MutsState(st).seed, pos |-> MutsState(st).pos],
     st |-> [st EXCEPT !.m.pos = @ + 1]]

\* rng_muts.integers(n) / rng_muts.choice(...): advances rng_trees when shared.
DrawMuts(st) ==
    [val |-> [stream |-> "muts", seed |-> MutsState(st).seed, pos |-> MutsState(st).pos],
     st |-> IF st.m.shared THEN [st EXCEPT !.t.pos = @ + 1]
            ELSE [st EXCEPT !.m.pos = @ + 1]]

(***************************************************************************)
(* Values the engine returns, and the result storage.                      *)
(***************************************************************************)
NoDraw == [stream |-> "none", seed |-> None, pos |-> 0]

\* What the mutation overlay put on the (single) site of a tree sequence.
NoVariant == [exists |-> FALSE, nmuts |-> 0, nalleles |-> 0]

\* A site carries at least one mutation and so at least two alleles
\* (the ancestral state and a derived one), at most one more than mutations.
Variants ==
    {NoVariant} \cup
    UNION {{[exists |-> TRUE, nmuts |-> m, nalleles |-> a] :
                a \in 2..Min(m + 1, 4)} : m \in 1..MaxMuts}

\* ms.sim_ancestry(..., sequence_length=nsites, random_seed=seed): replicate rep.
TreeSeq(seed, nsites, rep) == [seed |-> seed, nsites |-> nsites, rep |-> rep]

BlankTreeSeq == TreeSeq(NoDraw, 0, 0)

\* ms.sim_mutations(tree_sequence=ts, random_seed=mseed), with what it put on the site.
Mutated(ts, mseed, variant) == [ts |-> ts, mseed |-> mseed, variant |-> variant]

BlankMutated == Mutated(BlankTreeSeq, NoDraw, NoVariant)

\* A cell block of np.zeros(...) that nothing was written to.
Zero == [filled |-> FALSE, from |-> BlankMutated, anc |-> NoDraw]

\* A cell block written from a mutated tree sequence.
Filled(mts, anc) == [filled |-> TRUE, from |-> mts, anc |-> anc]

\* np.zeros((n, ...)): n blocks of zeros.
Zeros(n) == [i \in 1..n |-> Zero]

EmptyDict == [k \in {} |-> BlankMutated]

\* d[k] = v on a Python dict.
DictPut(d, k, v) == [x \in (DOMAIN d) \cup {k} |-> IF x = k THEN v ELSE d[x]]

\* The attributes df, seqs, ancestral_seq before any simulation call.
NoData == [call |-> 0, kind |-> "None", data |-> <<>>]

\* One row of the summary table.
Row(locus, nsites, nsnps, genealogy) ==
    [locus |-> locus, start |-> 0, end |-> nsites, nbps |-> nsites,
     nsnps |-> nsnps, tidx |-> 0, genealogy |-> genealogy]

\* No call has finished yet; allok: no finished call has raised.
NoCall == [name |-> "none", status |-> "none", no |-> 0, allok |-> TRUE]

BlankCall ==
    [name |-> "none", nloci |-> 0, nsites |-> 0, nsnps |-> 0,
     min_alleles |-> 0, max_alleles |-> 0, min_mutations |-> 0,
     max_mutations |-> 0, repeat_on_trees |-> FALSE]

BlankFrame ==
    [lidx |-> 0, datalist |-> <<>>, seqarr |-> <<>>, aseqarr |-> <<>>,
     msgen |-> BlankTreeSeq, treeseq |-> BlankTreeSeq,
     mutated_ts |-> BlankMutated, attempts |-> 0, passes |-> 0]

(***************************************************************************)
(* The simulation entry points.  A call runs as a sequence of steps: the   *)
(* call itself (argument checks, set-up), one step per pass of a loop,     *)
(* and the return (what follows the loop).  recomb is a plain rate here.   *)
(***************************************************************************)
\* An exception leaves the call: the locals are gone, nothing else is done.
Raise ==
    /\ pc' = "idle"
    /\ frame' = BlankFrame
    /\ last' = [name |-> call.name, status |-> "raised", no |-> ncalls, allok |-> FALSE]

Return ==
    /\ pc' = "idle"
    /\ frame' = BlankFrame
    /\ last' = [name |-> call.name, status |-> "returned", no |-> ncalls,
                 allok |-> last.allok]

SetStreams(st) ==
    /\ rng_trees' = st.t
    /\ rng_muts' = st.m

\* An entry of ts_dict, df, seqs or ancestral_seq written by the running call.
Stored(kind, data) == [call |-> ncalls, kind |-> kind, data |-> data]

\* sim_trees, lines 780-789.
SimTreesCall(nloci, nsites) ==
    /\ pc = "idle"
    /\ ncalls < MaxCalls
    /\ pc' = "sim_trees"
    /\ call' = [BlankCall EXCEPT !.name = "sim_trees", !.nloci = nloci, !.nsites = nsites]
    /\ frame' = BlankFrame
    /\ draws' = <<>>
    /\ ncalls' = ncalls + 1
    /\ UNCHANGED <<demvars, postvars, init_tseed, init_mseed, rng_trees, rng_muts, ts_dict, df,
                   seqs, ancestral_seq, last>>

\* sim_trees, lines 790-822: one pass of the loop over loci.
SimTreesLocus ==
    /\ pc = "sim_trees"
    /\ frame.lidx < call.nloci
    /\ \E fail \in BOOLEAN :
        LET d == DrawTrees(Streams)
            tree_seq == TreeSeq(d.val, call.nsites, 0)
        IN  /\ SetStreams(d.st)
            /\ draws' = Append(draws, d.val)
            /\ IF fail
               THEN Raise /\ UNCHANGED ts_dict
               ELSE /\ frame' = [frame EXCEPT
                        !.lidx = @ + 1,
                        !.datalist = Append(@, Row(frame.lidx, call.nsites, 0, tree_seq))]
                    /\ ts_dict' = DictPut(ts_dict, frame.lidx,
                                    Stored("ts", Mutated(tree_seq, NoDraw, NoVariant)))
                    /\ UNCHANGED <<pc, last>>
    /\ UNCHANGED <<demvars, postvars, init_tseed, init_mseed, df, seqs, ancestral_seq, call, ncalls>>

\* sim_trees, lines 824-828: pd.concat of an empty list raises ValueError.
SimTreesReturn ==
    /\ pc = "sim_trees"
    /\ frame.lidx >= call.nloci
    /\ IF frame.datalist = <<>>
       THEN Raise /\ UNCHANGED <<df, seqs>>
       ELSE /\ df' = Stored("table", frame.datalist)
            /\ seqs' = Stored("empty", <<>>)
            /\ Return
    /\ UNCHANGED <<demvars, postvars, init_tseed, init_mseed, rng_trees, rng_muts, ts_dict,
                   ancestral_seq, call, draws, ncalls>>

\* sim_loci, lines 862-880.
SimLociCall(nloci, nsites) ==
    /\ pc = "idle"
    /\ ncalls < MaxCalls
    /\ pc' = "sim_loci"
    /\ call' = [BlankCall EXCEPT !.name = "sim_loci", !.nloci = nloci, !.nsites = nsites]
    /\ frame' = [BlankFrame EXCEPT !.seqarr = Zeros(nloci),
                                   !.aseqarr = [i \in 1..nloci |-> NoDraw]]
    /\ draws' = <<>>
    /\ ncalls' = ncalls + 1
    /\ UNCHANGED <<demvars, postvars, init_tseed, init_mseed, rng_trees, rng_muts, ts_dict, df,
                   seqs, ancestral_seq, last>>

\* sim_loci, lines 881-941: one pass of the loop over loci.
SimLociLocus ==
    /\ pc = "sim_loci"
    /\ frame.lidx < call.nloci
    /\ \E fail \in {"no", "sim_ancestry", "sim_mutations"} :
        LET d == DrawTrees(Streams)
            tree_seq == TreeSeq(d.val, call.nsites, 0)
            dm == DrawMuts(d.st)
            mutated_ts == Mutated(tree_seq, dm.val, NoVariant)
            da == DrawMuts(dm.st)
        IN  CASE fail = "sim_ancestry" ->
                    /\ SetStreams(d.st)
                    /\ draws' = Append(draws, d.val)
                    /\ Raise /\ UNCHANGED ts_dict
              [] fail = "sim_mutations" ->
                    /\ SetStreams(dm.st)
                    /\ draws' = draws \o <<d.val, dm.val>>
                    /\ Raise /\ UNCHANGED ts_dict
              [] OTHER ->
                    /\ SetStreams(da.st)
                    /\ draws' = draws \o <<d.val, dm.val, da.val>>
                    /\ frame' = [frame EXCEPT
                        !.lidx = @ + 1,
                        !.datalist = Append(@, Row(frame.lidx, call.nsites, 0, tree_seq)),
                        !.seqarr[frame.lidx + 1] = Filled(mutated_ts, da.val),
                        !.aseqarr[frame.lidx + 1] = da.val]
                    /\ ts_dict' = DictPut(ts_dict, frame.lidx, Stored("ts", mutated_ts))
                    /\ UNCHANGED <<pc, last>>
    /\ UNCHANGED <<demvars, postvars, init_tseed, init_mseed, df, seqs, ancestral_seq, call, ncalls>>

\* sim_loci, lines 943-953.
SimLociReturn ==
    /\ pc = "sim_loci"
    /\ frame.lidx >= call.nloci
    /\ IF frame.datalist = <<>>
       THEN Raise /\ UNCHANGED <<df, seqs, ancestral_seq, rng_trees, rng_muts>>
       ELSE /\ df' = Stored("table", frame.datalist)
            /\ seqs' = Stored("loci", frame.seqarr)
            /\ ancestral_seq' = Stored("loci", frame.aseqarr)
            /\ \E e \in Entropy : SetStreams(ResetStreams(Streams, e))
            /\ Return
    /\ UNCHANGED <<demvars, postvars, init_tseed, init_mseed, ts_dict, call, draws, ncalls>>

\* sim_snps, lines 1030-1031: a missing (or zero) maximum becomes 100000.
OrNoLimit(x) == IF Truthy(x) THEN x ELSE NoLimit

\* sim_snps, lines 1032-1033: the two assertions on the arguments.
ArgsAsserted(c) == c.min_mutations > 0 /\ c.max_alleles > c.min_alleles

\* The acceptance test without its allele-count test: C4 fails under it.
AcceptsAnyAlleles(v, c) == v.exists /\ ~(v.nmuts < c.min_mutations)

\* sim_snps, lines 1084-1091 (and 1073-1080): the draw is kept when none of
\* the three 'continue' branches is taken.
Accepts(v, c) ==
    /\ v.exists
    /\ ~(v.nmuts < c.min_mutations)
    /\ (c.max_alleles >= v.nalleles /\ v.nalleles >= c.min_alleles)

\* sim_snps, lines 1065-1080: where control goes after a pass of the inner
\* 'while 1' of repeat_on_trees. Every branch is a 'continue' and the end of
\* the body is the end of the loop body: there is no 'break'.
AfterRepeatPass(v, c) == "sim_snps_repeat"

\* sim_snps, lines 1027-1042.
SimSnpsCall(a) ==
    /\ pc = "idle"
    /\ ncalls < MaxCalls
    /\ ncalls' = ncalls + 1
    /\ LET c == [BlankCall EXCEPT
                    !.name = "sim_snps", !.nsnps = a.nsnps,
                    !.min_alleles = a.min_alleles,
                    !.max_alleles = OrNoLimit(a.max_alleles),
                    !.min_mutations = a.min_mutations,
                    !.max_mutations = OrNoLimit(a.max_mutations),
                    !.repeat_on_trees = a.repeat_on_trees]
           d == DrawTrees(Streams)
           raised == [name |-> "sim_snps", status |-> "raised", no |-> ncalls + 1,
                     allok |-> FALSE]
       IN  /\ call' = c
           /\ IF ~ArgsAsserted(c)
              THEN \* AssertionError
                   /\ pc' = "idle" /\ frame' = BlankFrame /\ last' = raised
                   /\ draws' = <<>>
                   /\ UNCHANGED <<rng_trees, rng_muts>>
              ELSE /\ SetStreams(d.st)
                   /\ draws' = <<d.val>>
                   /\ IF a.nsnps < 0
                      THEN \* np.zeros with a negative dimension: ValueError
                           pc' = "idle" /\ frame' = BlankFrame /\ last' = raised
                      ELSE /\ pc' = "sim_snps"
                           /\ frame' = [BlankFrame EXCEPT
                                  !.msgen = TreeSeq(d.val, 1, 0),
                                  !.seqarr = Zeros(a.nsnps),
                                  !.aseqarr = [i \in 1..a.nsnps |-> NoDraw]]
                           /\ UNCHANGED last
    /\ UNCHANGED <<demvars, postvars, init_tseed, init_mseed, ts_dict, df, seqs, ancestral_seq>>

\* sim_snps, lines 1045-1061 and 1083-1109: one pass of the outer loop
\* without repeat_on_trees.
SimSnpsDraw ==
    /\ pc = "sim_snps"
    /\ frame.lidx # call.nsnps
    /\ ~call.repeat_on_trees
    /\ frame.attempts < MaxAttempts
    /\ \E v \in Variants, fail \in BOOLEAN :
        LET treeseq == frame.msgen
            dm == DrawMuts(Streams)
            mutated_ts == Mutated(treeseq, dm.val, v)
        IN  /\ SetStreams(dm.st)
            /\ draws' = Append(draws, dm.val)
            /\ IF fail
               THEN Raise /\ UNCHANGED ts_dict
               ELSE /\ UNCHANGED <<pc, last>>
                    /\ IF Accepts(v, call)
                       THEN /\ frame' = [frame EXCEPT
                                !.msgen.rep = @ + 1,
                                !.attempts = @ + 1,
                                !.treeseq = treeseq,
                                !.mutated_ts = mutated_ts,
                                !.seqarr[frame.lidx + 1] = Filled(mutated_ts, NoDraw),
                                !.aseqarr[frame.lidx + 1] = dm.val,
                                !.datalist = Append(@, treeseq),
                                !.lidx = @ + 1]
                            /\ ts_dict' = DictPut(ts_dict, frame.lidx, Stored("ts", mutated_ts))
                       ELSE /\ frame' = [frame EXCEPT
                                !.msgen.rep = @ + 1,
                                !.attempts = @ + 1,
                                !.treeseq = treeseq,
                                !.mutated_ts = mutated_ts]
                            /\ UNCHANGED ts_dict
    /\ UNCHANGED <<demvars, postvars, init_tseed, init_mseed, df, seqs, ancestral_seq, call, ncalls>>

\* sim_snps, lines 1045-1064: a pass of the outer loop with repeat_on_trees
\* draws a tree, overlays once, and enters the inner loop.
SimSnpsEnterRepeat ==
    /\ pc = "sim_snps"
    /\ frame.lidx # call.nsnps
    /\ call.repeat_on_trees
    /\ frame.attempts < MaxAttempts
    /\ \E v \in Variants :
        LET treeseq == frame.msgen
            dm == DrawMuts(Streams)
        IN  /\ SetStreams(dm.st)
            /\ draws' = Append(draws, dm.val)
            /\ frame' = [frame EXCEPT
                    !.msgen.rep = @ + 1,
                    !.attempts = @ + 1,
                    !.passes = 0,
                    !.treeseq = treeseq,
                    !.mutated_ts = Mutated(treeseq, dm.val, v)]
            /\ pc' = "sim_snps_repeat"
    /\ UNCHANGED <<demvars, postvars, init_tseed, init_mseed, ts_dict, df, seqs, ancestral_seq,
                   call, ncalls, last>>

\* sim_snps, lines 1065-1080: one pass of the inner loop.
SimSnpsRepeat ==
    /\ pc = "sim_snps_repeat"
    /\ frame.attempts < MaxAttempts
    /\ \E v \in Variants :
        LET dm == DrawMuts(Streams)
        IN  /\ SetStreams(dm.st)
            /\ draws' = Append(draws, dm.val)
            /\ frame' = [frame EXCEPT
                    !.attempts = @ + 1,
                    !.passes = @ + 1,
                    !.mutated_ts = Mutated(frame.treeseq, dm.val, v)]
            /\ pc' = AfterRepeatPass(v, call)
    /\ UNCHANGED <<demvars, postvars, init_tseed, init_mseed, ts_dict, df, seqs, ancestral_seq,
                   call, ncalls, last>>

\* sim_snps, lines 1047-1049 and 1111-1132.
SimSnpsReturn ==
    /\ pc = "sim_snps"
    /\ frame.lidx = call.nsnps
    /\ df' = Stored("table",
                [i \in 1..call.nsnps |-> Row(i - 1, 1, 1, frame.datalist[i])])
    /\ seqs' = Stored("snps", frame.seqarr)
    /\ ancestral_seq' = Stored("snps", frame.aseqarr)
    /\ \E e \in Entropy : SetStreams(ResetStreams(Streams, e))
    /\ Return
    /\ UNCHANGED <<demvars, postvars, init_tseed, init_mseed, ts_dict, call, draws, ncalls>>

\* get_tree_sequence, lines 704-719: the result is returned, not stored.
GetTreeSequence(nsites) ==
    /\ pc = "idle"
    /\ ncalls < MaxCalls
    /\ ncalls' = ncalls + 1
    /\ LET d == DrawTrees(Streams)
           dm == DrawMuts(d.st)
       IN  /\ SetStreams(dm.st)
           /\ draws' = <<d.val, dm.val>>
    /\ call' = [BlankCall EXCEPT !.name = "get_tree_sequence", !.nsites = nsites]
    /\ last' = [name |-> "get_tree_sequence", status |-> "returned",
                 no |-> ncalls + 1, allok |-> last.allok]
    /\ UNCHANGED <<demvars, postvars, init_tseed, init_mseed, ts_dict, df, seqs, ancestral_seq, pc, frame>>

(***************************************************************************)
(* The demography compiler: _get_migration and _get_new_demography.        *)
(*                                                                         *)
(* A tree is [children, height]: functions on the node indices (idx), the  *)
(* leaves first and every parent after its children, as toytree numbers    *)
(* them; idx_dict is taken to iterate in that order.  Times are integers   *)
(* and proportions are quarters (0..4 for 0.0 .. 1.0); rates are tenths.   *)
(* Population names are strings, kept as sequences of character codes so   *)
(* that sorted() and "_".join() are what Python computes.  Population      *)
(* sizes (Ne) pass through unchanged and are left out.                     *)
(***************************************************************************)
Nodes(t) == DOMAIN t.children

IsLeaf(t, x) == t.children[x] = <<>>

Parent(t, x) == t.parent[x]

\* An admixture replacement name without its suffix: C12 fails under it.
NoSuffix == <<>>

\* Character codes: '_' < 'a' < 'n', digits below them all.
Chr_ == <<95>>
ChrA == <<97>>
ChrN == <<110>>
Digit(d) == <<48 + d>>

\* The .current attribute of a node that was never given one.
Unset == <<>>

\* Python's < on strings: lexicographic by character code.
RECURSIVE StrLess(_, _)
StrLess(a, b) ==
    IF b = <<>> THEN FALSE
    ELSE IF a = <<>> THEN TRUE
    ELSE IF Head(a) # Head(b) THEN Head(a) < Head(b)
    ELSE StrLess(Tail(a), Tail(b))

\* The event type names as Python strings.
TypeStr(type) ==
    CASE type = "admixture" -> <<97, 100, 109, 105, 120, 116, 117, 114, 101>>
      [] type = "migration" -> <<109, 105, 103, 114, 97, 116, 105, 111, 110>>
      [] type = "split" -> <<115, 112, 108, 105, 116>>

\* line 486: key=lambda x: (x['time'], x['type']), compared as tuples.
KeyLess(e1, e2) ==
    \/ e1.time < e2.time
    \/ e1.time = e2.time /\ StrLess(TypeStr(e1.type), TypeStr(e2.type))

\* list.sort is stable: an element goes after every element not greater than it.
RECURSIVE InsertSorted(_, _)
InsertSorted(sorted, e) ==
    IF sorted = <<>> THEN <<e>>
    ELSE IF KeyLess(e, Head(sorted)) THEN <<e>> \o sorted
    ELSE <<Head(sorted)>> \o InsertSorted(Tail(sorted), e)

RECURSIVE SortEvents(_)
SortEvents(evs) ==
    IF evs = <<>> THEN <<>>
    ELSE InsertSorted(SortEvents(SubSeq(evs, 1, Len(evs) - 1)), evs[Len(evs)])

\* sorted() of a list of names.
RECURSIVE InsertName(_, _)
InsertName(sorted, nm) ==
    IF sorted = <<>> THEN <<nm>>
    ELSE IF StrLess(nm, Head(sorted)) THEN <<nm>> \o sorted
    ELSE <<Head(sorted)>> \o InsertName(Tail(sorted), nm)

RECURSIVE SortNames(_)
SortNames(nms) ==
    IF nms = <<>> THEN <<>>
    ELSE InsertName(SortNames(SubSeq(nms, 1, Len(nms) - 1)), nms[Len(nms)])

\* "_".join(names)
RECURSIVE Join(_)
Join(nms) ==
    IF nms = <<>> THEN <<>>
    ELSE IF Len(nms) = 1 THEN nms[1]
    ELSE nms[1] \o Chr_ \o Join(Tail(nms))

\* f"n{idx}"
LeafName(idx) == ChrN \o Digit(idx)

\* Optional pairs: the locals 'props' and 'heights' of _get_migration.
Unbound == [st |-> "unbound", a |-> 0, b |-> 0]
NoneV == [st |-> "None", a |-> 0, b |-> 0]
Pair(a, b) == [st |-> "pair", a |-> a, b |-> b]

\* The 'time' entry of an admixture tuple, by its Python type.
TimeNone == [type |-> "None", ints |-> FALSE, a |-> 0, b |-> 0]
TimeInt(h) == [type |-> "int", ints |-> TRUE, a |-> h, b |-> h]
TimeFloat(p) == [type |-> "float", ints |-> FALSE, a |-> p, b |-> p]
TimeTuple(ints, a, b) == [type |-> "tuple", ints |-> ints, a |-> a, b |-> b]
TimeOther == [type |-> "other", ints |-> FALSE, a |-> 0, b |-> 0]

\* The interval two edges of the tree share (section 4.1 of the design).
SharedInterval(t, src, dest) ==
    [lo |-> Max(t.height[src], t.height[dest]),
     hi |-> Min(t.height[Parent(t, src)], t.height[Parent(t, dest)])]

\* get_admix_interval_as_gens(tree, src, dest, heights, props): the interval
\* in generations, or an error.
AdmixInterval(t, src, dest, heights, props) ==
    LET iv == SharedInterval(t, src, dest)
        at(p) == iv.lo + ((p * (iv.hi - iv.lo)) \div 4)
    IN  IF src \notin Nodes(t) \/ dest \notin Nodes(t)
        THEN [ok |-> FALSE, t0 |-> 0, t1 |-> 0]
        ELSE IF Parent(t, src) = None \/ Parent(t, dest) = None \/ iv.lo > iv.hi
        THEN [ok |-> FALSE, t0 |-> 0, t1 |-> 0]
        ELSE IF props.st = "pair"
        THEN [ok |-> TRUE, t0 |-> at(props.a), t1 |-> at(props.b)]
        ELSE IF heights.st = "pair"
        THEN [ok |-> heights.a >= iv.lo /\ heights.b <= iv.hi /\ heights.a <= heights.b,
              t0 |-> heights.a, t1 |-> heights.b]
        ELSE [ok |-> FALSE, t0 |-> 0, t1 |-> 0]

\* A pulse at the midpoint as the default of time=None: C15 fails under it.
MidpointProps == Pair(2, 2)

\* line 397: props = (0.25, 0.75), in quarters.
DefaultProps == Pair(1, 3)

\* lines 396-412: 'props' after the if/elif chain; no branch for other types.
PropsOf(time, before) ==
    IF time.type = "None" THEN DefaultProps
    ELSE IF time.type = "int" THEN NoneV
    ELSE IF time.type = "float" THEN Pair(time.a, time.a)
    ELSE IF time.type = "tuple"
         THEN IF time.ints THEN NoneV ELSE Pair(time.a, time.b)
    ELSE before

\* lines 396-412: 'heights' after the if/elif chain.
HeightsOf(time, before) ==
    IF time.type = "None" THEN NoneV
    ELSE IF time.type = "int" THEN Pair(time.a, time.a)
    ELSE IF time.type = "float" THEN NoneV
    ELSE IF time.type = "tuple"
         THEN IF time.ints THEN Pair(time.a, time.b) ELSE NoneV
    ELSE before

\* lines 392-417: the loop over the edges; st = [out, props, heights, err,
\* args], args being the arguments of the calls of the resolver so far.
RECURSIVE MigrationLoop(_, _, _)
MigrationLoop(t, edges, st) ==
    IF edges = <<>> \/ st.err # "" THEN st
    ELSE LET e == Head(edges)
             props == PropsOf(e.time, st.props)
             heights == HeightsOf(e.time, st.heights)
             iv == AdmixInterval(t, e.src, e.dest, heights, props)
         IN  IF props.st = "unbound"
             THEN [st EXCEPT !.err = "UnboundLocalError"]
             ELSE IF ~iv.ok
             THEN [st EXCEPT !.err = "IpcoalError", !.props = props, !.heights = heights,
                             !.args = Append(@, [heights |-> heights, props |-> props])]
             ELSE MigrationLoop(t, Tail(edges),
                    [st EXCEPT !.props = props, !.heights = heights,
                        !.args = Append(@, [heights |-> heights, props |-> props]),
                        !.out = Append(@, [src |-> e.src, dest |-> e.dest,
                                           time |-> <<iv.t0, iv.t1>>, rate |-> e.rate])])

\* lines 447-454: one split event per internal node, in idx_dict order.
RECURSIVE SplitEvents(_, _)
SplitEvents(t, k) ==
    IF k \notin Nodes(t) THEN <<>>
    ELSE (IF IsLeaf(t, k) THEN <<>>
          ELSE <<[type |-> "split", time |-> t.height[k],
                  derived |-> t.children[k], ancestral |-> <<k>>,
                  source |-> 0, dest |-> 0, end |-> FALSE, rate |-> 0,
                  proportions |-> <<>>]>>)
         \o SplitEvents(t, k + 1)

\* An interval whose end keeps the rate on: C14 fails under it.
EndRateKept(r) == r

\* line 482: 'rate': 0, the rate of the event that ends an interval.
EndRate(r) == 0

\* lines 457-483: a pulse gives one admixture event, an interval gives a
\* migration start and a migration end.
RECURSIVE AdmixEvents(_)
AdmixEvents(admix) ==
    IF admix = <<>> THEN <<>>
    ELSE LET a == Head(admix)
             mig(time, end, r) ==
                [type |-> "migration", time |-> time,
                 derived |-> <<>>, ancestral |-> <<>>,
                 source |-> a.src, dest |-> a.dest, end |-> end, rate |-> r,
                 proportions |-> <<>>]
         IN  (IF a.time[1] = a.time[2]
              THEN <<[type |-> "admixture", time |-> a.time[1],
                      derived |-> <<a.dest>>, ancestral |-> <<a.src, a.dest>>,
                      source |-> 0, dest |-> 0, end |-> FALSE, rate |-> 0,
                      proportions |-> <<a.rate, 10 - a.rate>>]>>
              ELSE <<mig(a.time[1], FALSE, a.rate), mig(a.time[2], TRUE, EndRate(a.rate))>>)
             \o AdmixEvents(Tail(admix))

\* lines 429-438: the names of the leaf populations, in idx_dict order.
RECURSIVE LeafPopulations(_, _)
LeafPopulations(t, k) ==
    IF k \notin Nodes(t) THEN <<>>
    ELSE (IF IsLeaf(t, k) THEN <<LeafName(k)>> ELSE <<>>) \o LeafPopulations(t, k + 1)

\* A population handed to msprime by name, or by integer id.
ByName(nm) == [by |-> "name", id |-> None, name |-> nm]
ById(id) == [by |-> "id", id |-> id, name |-> <<>>]
NoRef == ById(None)

\* One call on the msprime Demography.
DemCall(fn, time, derived, ancestral, proportions, source, dest, r) ==
    [fn |-> fn, time |-> time, derived |-> derived, ancestral |-> ancestral,
     proportions |-> proportions, source |-> source, dest |-> dest, rate |-> r]

\* lines 536-537: source=event['source'], dest=event['dest'].
MigrationRef(idx) == ById(idx)

\* _get_migration, lines 392-417.
GetMigration ==
    /\ dpc = "get_migration"
    /\ LET r == MigrationLoop(tree, admixture_edges,
                    [out |-> <<>>, props |-> Unbound, heights |-> Unbound, err |-> "",
                     args |-> <<>>])
       IN  /\ ms_admix' = r.out
           /\ resolver_args' = r.args
           /\ dpc' = IF r.err # "" THEN r.err ELSE "new_demography"
    /\ UNCHANGED <<simvars, postvars, initvars, tree, admixture_edges, events, eidx, current,
                   demography, rate>>

\* _get_new_demography, lines 424-486: the leaf populations and the sorted
\* list of events. 'rate' stays bound to the rate of the last edge.
NewDemography ==
    /\ dpc = "new_demography"
    /\ current' = [x \in Nodes(tree) |-> IF IsLeaf(tree, x) THEN LeafName(x) ELSE Unset]
    /\ demography' = [populations |-> LeafPopulations(tree, 0), events |-> <<>>]
    /\ events' = SortEvents(SplitEvents(tree, 0) \o AdmixEvents(ms_admix))
    /\ rate' = IF ms_admix = <<>> THEN None ELSE ms_admix[Len(ms_admix)].rate
    /\ eidx' = 0
    /\ dpc' = "apply"
    /\ UNCHANGED <<simvars, postvars, initvars, tree, admixture_edges, ms_admix, resolver_args>>

\* The event the apply loop takes next.
NextEvent == events[eidx + 1]

Applying(type) ==
    /\ dpc = "apply"
    /\ eidx < Len(events)
    /\ NextEvent.type = type

\* lines 491-504.
ApplySplit ==
    /\ Applying("split")
    /\ LET node == NextEvent.ancestral[1]
           kids == tree.children[node]
           names == [i \in DOMAIN kids |-> current[kids[i]]]
           name == Join(SortNames(names))
       IN  IF \E i \in DOMAIN kids : current[kids[i]] = Unset
           THEN /\ dpc' = "AttributeError"
                /\ UNCHANGED <<current, demography, eidx>>
           ELSE /\ current' = [current EXCEPT ![node] = name]
                /\ demography' = [demography EXCEPT
                        !.populations = Append(@, name),
                        !.events = Append(@, DemCall("add_population_split",
                            tree.height[node], names, <<name>>, <<>>,
                            NoRef, NoRef, 0))]
                /\ eidx' = eidx + 1
                /\ UNCHANGED dpc
    /\ UNCHANGED <<simvars, postvars, initvars, tree, admixture_edges, ms_admix, resolver_args, events, rate>>

\* The source node keeping its old tag after a pulse: C13 fails under it.
NotRenamed(cur, src, newname) == cur

\* line 529: node_src.current = newname.
Renamed(cur, src, newname) == [cur EXCEPT ![src] = newname]

\* lines 506-529.
ApplyAdmixture ==
    /\ Applying("admixture")
    /\ LET src == NextEvent.ancestral[1]
           dest == NextEvent.ancestral[2]
           newname == current[src] \o ChrA
       IN  IF current[src] = Unset
           THEN /\ dpc' = "AttributeError"
                /\ UNCHANGED <<current, demography, eidx>>
           ELSE IF current[dest] = Unset
           THEN /\ dpc' = "AttributeError"
                /\ demography' = [demography EXCEPT !.populations = Append(@, newname)]
                /\ UNCHANGED <<current, eidx>>
           ELSE /\ demography' = [demography EXCEPT
                        !.populations = Append(@, newname),
                        !.events = Append(@, DemCall("add_admixture",
                            NextEvent.time, <<current[src]>>,
                            <<current[dest], newname>>, <<rate, 10 - rate>>,
                            NoRef, NoRef, 0))]
                /\ current' = Renamed(current, src, newname)
                /\ eidx' = eidx + 1
                /\ UNCHANGED dpc
    /\ UNCHANGED <<simvars, postvars, initvars, tree, admixture_edges, ms_admix, resolver_args, events, rate>>

\* lines 532-539.
ApplyMigration ==
    /\ Applying("migration")
    /\ demography' = [demography EXCEPT
            !.events = Append(@, DemCall("add_migration_rate_change",
                NextEvent.time, <<>>, <<>>, <<>>,
                MigrationRef(NextEvent.source), MigrationRef(NextEvent.dest),
                NextEvent.rate))]
    /\ eidx' = eidx + 1
    /\ UNCHANGED <<simvars, postvars, initvars, tree, admixture_edges, ms_admix, resolver_args, events, current,
                   rate, dpc>>

\* lines 541-543.
StoreDemography ==
    /\ dpc = "apply"
    /\ eidx = Len(events)
    /\ dpc' = "done"
    /\ UNCHANGED <<simvars, postvars, initvars, tree, admixture_edges, ms_admix, resolver_args, events, eidx,
                   current, demography, rate>>

(***************************************************************************)
(* The inputs of the compiler: species trees and admixture edges.          *)
(***************************************************************************)
\* The parent of every node, from the lists of children.
ParentsOf(children) ==
    [x \in DOMAIN children |->
        IF \E q \in DOMAIN children : \E i \in DOMAIN children[q] : children[q][i] = x
        THEN CHOOSE q \in DOMAIN children : \E i \in DOMAIN children[q] : children[q][i] = x
        ELSE None]

MkTree(children, height) ==
    [children |-> children, parent |-> ParentsOf(children), height |-> height]

\* (0,1)2
Tree2 == MkTree(0 :> <<>> @@ 1 :> <<>> @@ 2 :> <<0, 1>>,
                0 :> 0 @@ 1 :> 0 @@ 2 :> 4)

\* ((0,1)3,2)4
Tree3 == MkTree(0 :> <<>> @@ 1 :> <<>> @@ 2 :> <<>> @@ 3 :> <<0, 1>> @@ 4 :> <<3, 2>>,
                0 :> 0 @@ 1 :> 0 @@ 2 :> 0 @@ 3 :> 4 @@ 4 :> 8)

\* ((0,1)3,2)4 with an internal edge of length zero
Tree3Flat == MkTree(Tree3.children, 0 :> 0 @@ 1 :> 0 @@ 2 :> 0 @@ 3 :> 4 @@ 4 :> 4)

\* ((0,1)4,(2,3)5)6 where the node with the larger idx is the younger one
Tree4 == MkTree(0 :> <<>> @@ 1 :> <<>> @@ 2 :> <<>> @@ 3 :> <<>> @@
                4 :> <<0, 1>> @@ 5 :> <<2, 3>> @@ 6 :> <<4, 5>>,
                0 :> 0 @@ 1 :> 0 @@ 2 :> 0 @@ 3 :> 0 @@ 4 :> 8 @@ 5 :> 4 @@ 6 :> 12)

Trees == {Tree2, Tree3, Tree3Flat, Tree4}

Times == {TimeNone, TimeFloat(0), TimeFloat(2), TimeInt(4),
          TimeTuple(FALSE, 0, 4), TimeOther}

Rates == {1, 3}

NonRoot(t) == {x \in Nodes(t) : Parent(t, x) # None}

Edges(t) ==
    {e \in [src : NonRoot(t), dest : NonRoot(t), time : Times, rate : Rates] :
        e.src # e.dest}

\* No edge, one edge, or (on the smaller trees) two edges.
EdgeLists(t) ==
    {<<>>} \cup {<<e>> : e \in Edges(t)}
    \cup (IF Cardinality(Nodes(t)) <= 5
          THEN {<<e, f>> : e \in Edges(t), f \in Edges(t)} ELSE {})

\* The simulation side at rest.
SimIdle ==
    /\ init_tseed = None
    /\ init_mseed = None
    /\ rng_trees = default_rng(None, None)
    /\ rng_muts = ResetMuts(None)
    /\ ts_dict = EmptyDict
    /\ df = NoData
    /\ seqs = NoData
    /\ ancestral_seq = NoData
    /\ pc = "off"
    /\ call = BlankCall
    /\ frame = BlankFrame
    /\ draws = <<>>
    /\ ncalls = 0
    /\ last = NoCall
    /\ ops = <<>>

\* The arguments of __init__ that the compiler does not read.
ConstructIdle ==
    /\ nsamples = None
    /\ samples = <<>>
    /\ self_nstips = None
    /\ tipdict = <<>>
    /\ edges_arg = <<>>
    /\ alpha_ordered_names = <<>>
    /\ reorder = <<>>

\* __init__, lines 185-195, entered with checked admixture edges.
InitDemography ==
    /\ SimIdle
    /\ ConstructIdle
    /\ dpc = "get_migration"
    /\ tree \in Trees
    /\ admixture_edges \in EdgeLists(tree)
    /\ ms_admix = <<>>
    /\ resolver_args = <<>>
    /\ events = <<>>
    /\ eidx = 0
    /\ current = <<>>
    /\ demography = <<>>
    /\ rate = None

NextDemography ==
    \/ GetMigration
    \/ NewDemography
    \/ ApplySplit
    \/ ApplyAdmixture
    \/ ApplyMigration
    \/ StoreDemography

SpecDemography == InitDemography /\ [][NextDemography]_vars

(***************************************************************************)
(* Construction: samples, tip names and the check of the admixture edges.  *)
(***************************************************************************)
\* self.tree.idx_dict[idx].name: node idx is labelled 'A', 'B', ...
NodeName(idx) == <<65 + idx>>

\* ms.SampleSet(num_samples=n, population=f"n{idx}", ploidy=1)
SampleSet(idx, n) == [population |-> LeafName(idx), num_samples |-> n]

\* int(sset.population[1:])
PopIdx(population) == population[2] - 48

\* lines 265-268: one entry per leaf, in idx_dict order.
RECURSIVE LeafSamples(_, _, _)
LeafSamples(t, k, n) ==
    IF k \notin Nodes(t) THEN <<>>
    ELSE (IF IsLeaf(t, k) THEN <<SampleSet(k, n)>> ELSE <<>>) \o LeafSamples(t, k + 1, n)

\* lines 275-278: one entry per key of the mapping, in its order.
DictSamples(items) == [i \in DOMAIN items |-> SampleSet(items[i][1], items[i][2])]

\* line 294: sum(samples.values())
RECURSIVE SumSamples(_)
SumSamples(ss) ==
    IF ss = <<>> THEN 0 ELSE Head(ss).num_samples + SumSamples(Tail(ss))

\* _set_samples, lines 263-304 (a mapping keyed by tip indices).
SetSamples ==
    /\ dpc = "set_samples"
    /\ IF nsamples.type = "other"
       THEN /\ dpc' = "TypeError"
            /\ UNCHANGED <<samples, self_nstips>>
       ELSE LET ss == IF nsamples.type = "int"
                      THEN LeafSamples(tree, 0, nsamples.n)
                      ELSE DictSamples(nsamples.items)
            IN  /\ samples' = ss
                /\ self_nstips' = SumSamples(ss)
                /\ dpc' = "get_tip_names"
    /\ UNCHANGED <<simvars, postvars, nsamples, tipdict, edges_arg, alpha_ordered_names,
                   reorder, tree, admixture_edges, ms_admix, resolver_args, events,
                   eidx, current, demography, rate>>

\* Every leaf labelled with a suffix whatever the counts: C20 fails under it.
NeverSingles(ss) == FALSE

\* line 313: all(i.num_samples == 1 for i in self.samples)
IsSingles(ss) == \A i \in DOMAIN ss : ss[i].num_samples = 1

\* lines 329-330: f"{tipname}_{sdx}" for sdx in range(num_samples)
Suffixed(tipname, n) == [sdx \in 1..n |-> tipname \o Chr_ \o Digit(sdx - 1)]

\* lines 325-331: the labels of the sample sets up to the first one whose
\* population is no node of the tree.
RECURSIVE SuffixedAll(_, _)
SuffixedAll(t, ss) ==
    IF ss = <<>> \/ PopIdx(Head(ss).population) \notin Nodes(t) THEN <<>>
    ELSE Suffixed(NodeName(PopIdx(Head(ss).population)), Head(ss).num_samples)
         \o SuffixedAll(t, Tail(ss))

\* The rows left in the order of the tip index map: C21 fails under it.
InOrder(td, sorted) == [i \in DOMAIN sorted |-> i - 1]

\* line 335: sorted(self.tipdict.values())
AlphaOrdered(names) == SortNames(names)

\* lines 334 and 336: revdict maps a label to the last tip index that has
\* it; the reorder list holds the tip index of every sorted label.
Reorder(td, sorted) ==
    [i \in DOMAIN sorted |->
        (CHOOSE k \in DOMAIN td :
            td[k] = sorted[i] /\ \A j \in DOMAIN td : td[j] = sorted[i] => j <= k) - 1]

\* _get_tip_names, lines 313-336: the tip index map, the sorted labels and
\* the reorder list.
GetTipNames ==
    /\ dpc = "get_tip_names"
    /\ LET known == \A i \in DOMAIN samples : PopIdx(samples[i].population) \in Nodes(tree)
       IN  /\ dpc' = IF known THEN "check_admixture_edges" ELSE "KeyError"
           /\ tipdict' =
                IF IsSingles(samples)
                THEN IF known
                     THEN [i \in DOMAIN samples |-> NodeName(PopIdx(samples[i].population))]
                     ELSE tipdict
                ELSE SuffixedAll(tree, samples)
           /\ IF known
              THEN /\ alpha_ordered_names' = AlphaOrdered(tipdict')
                   /\ reorder' = Reorder(tipdict', alpha_ordered_names')
              ELSE UNCHANGED <<alpha_ordered_names, reorder>>
    /\ UNCHANGED <<simvars, postvars, nsamples, samples, self_nstips, edges_arg, tree,
                   admixture_edges, ms_admix, resolver_args, events, eidx, current,
                   demography, rate>>

\* lines 352-356: the place of the first element the loop raises on (0 if
\* none): len() of an unsized element is a TypeError, a length other than 4
\* a ValueError.
FirstBad(edges) ==
    IF \E i \in DOMAIN edges : edges[i].len # 4
    THEN CHOOSE i \in DOMAIN edges :
            edges[i].len # 4 /\ \A j \in 1..(i - 1) : edges[j].len = 4
    ELSE 0

\* _check_admixture_edges, lines 342-356. Only element 0 is tested for being
\* a list or tuple; self.admixture_edges is assigned inside the loop.
CheckAdmixtureEdges ==
    /\ dpc = "check_admixture_edges"
    /\ IF edges_arg = <<>>
       THEN admixture_edges' = <<>> /\ dpc' = "get_migration"
       ELSE IF edges_arg[1].shape \notin {"list", "tuple"}
       THEN dpc' = "TypeError" /\ UNCHANGED admixture_edges
       ELSE LET bad == FirstBad(edges_arg)
            IN  /\ dpc' = IF bad = 0 THEN "get_migration"
                          ELSE IF edges_arg[bad].len = None THEN "TypeError"
                          ELSE "ValueError"
                /\ admixture_edges' = IF bad = 1 THEN admixture_edges ELSE edges_arg
    /\ UNCHANGED <<simvars, postvars, initvars, tree, ms_admix, resolver_args, events, eidx,
                   current, demography, rate>>

\* The arguments of __init__: trees, nsamples, admixture_edges.
InitTrees == {Tree2, Tree3}

Counts == {1, 2}

\* Keys of an nsamples mapping: leaves, an internal node, and (on the small
\* tree) an index that is no node.
DictKeys == 0..3

DictItems == DictKeys \X Counts

\* nsamples: an int, a mapping (its items in order), or another type.
IntSamples == {[type |-> "int", n |-> k, items |-> <<>>] : k \in Counts}

DictArgs ==
    {[type |-> "dict", n |-> 0, items |-> it] : it \in
        {<<a>> : a \in DictItems}
        \cup {<<a, b>> : a \in DictItems, b \in DictItems}
        \cup {<<a, b, c>> : a \in DictItems, b \in DictItems, c \in DictItems}}

DistinctKeys(items) ==
    \A i, j \in DOMAIN items : i # j => items[i][1] # items[j][1]

SampleArgs ==
    IntSamples \cup {d \in DictArgs : DistinctKeys(d.items)}
    \cup {[type |-> "other", n |-> 0, items |-> <<>>]}

\* Elements of the admixture_edges argument: a tuple that is a pulse, a
\* list that is an interval, a tuple of 3 values, a str of 4 characters
\* (which unpacks to 4 values, none of them a node or a time), and an int.
EdgeArg(shape, len, src, dest, time, r) ==
    [shape |-> shape, len |-> len, src |-> src, dest |-> dest, time |-> time, rate |-> r]

EdgeArgs ==
    {EdgeArg("tuple", 4, 0, 1, TimeFloat(2), 1),
     EdgeArg("list", 4, 1, 0, TimeNone, 3),
     EdgeArg("tuple", 3, None, None, TimeOther, 0),
     EdgeArg("str", 4, None, None, TimeOther, 0),
     EdgeArg("int", None, None, None, TimeOther, 0)}

EdgeArgLists ==
    {<<>>} \cup {<<e>> : e \in EdgeArgs} \cup {<<e, f>> : e \in EdgeArgs, f \in EdgeArgs}

\* __init__ at line 173, before _set_samples.
InitConstruct ==
    /\ SimIdle
    /\ dpc = "set_samples"
    /\ tree \in InitTrees
    /\ nsamples \in SampleArgs
    /\ edges_arg \in EdgeArgLists
    /\ samples = <<>>
    /\ self_nstips = None
    /\ tipdict = <<>>
    /\ alpha_ordered_names = <<>>
    /\ reorder = <<>>
    /\ admixture_edges = <<>>
    /\ ms_admix = <<>>
    /\ resolver_args = <<>>
    /\ events = <<>>
    /\ eidx = 0
    /\ current = <<>>
    /\ demography = <<>>
    /\ rate = None

\* __init__, lines 171-195.
NextConstruct ==
    \/ SetSamples
    \/ GetTipNames
    \/ CheckAdmixtureEdges
    \/ GetMigration
    \/ NewDemography
    \/ ApplySplit
    \/ ApplyAdmixture
    \/ ApplyMigration
    \/ StoreDemography

SpecConstruct == InitConstruct /\ [][NextConstruct]_vars

(***************************************************************************)
(* The model instance after construction, and its calls.                   *)
(***************************************************************************)
SeedArgs == {None} \cup 0..MaxSeed

SitesArgs == {2}

\* Arguments of sim_snps: every combination of small values.
SnpsArgs ==
    [nsnps : -1..MaxLoci,
     min_alleles : {1, 2, 3},
     max_alleles : {None, 2},
     min_mutations : {0, 1, 2},
     max_mutations : {None, 1},
     repeat_on_trees : BOOLEAN]

\* Arguments of sim_snps where a call is one of several: the defaults, and
\* one set of limits.
SnpsArgsFew ==
    [nsnps : -1..MaxLoci,
     min_alleles : {2},
     max_alleles : {None},
     min_mutations : {1},
     max_mutations : {None, 1},
     repeat_on_trees : BOOLEAN]

NoStreams == [t |-> [seed |-> None, pos |-> 0], m |-> ResetMuts(None)]

\* The demography compiler at rest.
DemographyIdle ==
    /\ ConstructIdle
    /\ dpc = "off"
    /\ tree = <<>>
    /\ admixture_edges = <<>>
    /\ ms_admix = <<>>
    /\ resolver_args = <<>>
    /\ events = <<>>
    /\ eidx = 0
    /\ current = <<>>
    /\ demography = <<>>
    /\ rate = None

\* __init__, lines 146-151 and 197-201.
Init ==
    /\ init_tseed \in SeedArgs
    /\ init_mseed \in SeedArgs
    /\ \E e \in Entropy :
        /\ rng_trees = ResetStreams(NoStreams, e).t
        /\ rng_muts = ResetStreams(NoStreams, e).m
    /\ ts_dict = EmptyDict
    /\ df = NoData
    /\ seqs = NoData
    /\ ancestral_seq = NoData
    /\ pc = "idle"
    /\ call = BlankCall
    /\ frame = BlankFrame
    /\ draws = <<>>
    /\ ncalls = 0
    /\ last = NoCall
    /\ ops = <<>>
    /\ DemographyIdle

Next ==
    \/ \E nloci \in 0..MaxLoci, nsites \in SitesArgs : SimTreesCall(nloci, nsites)
    \/ SimTreesLocus
    \/ SimTreesReturn
    \/ \E nloci \in 0..MaxLoci, nsites \in SitesArgs : SimLociCall(nloci, nsites)
    \/ SimLociLocus
    \/ SimLociReturn
    \/ \E a \in SnpsArgsFew : SimSnpsCall(a)
    \/ SimSnpsDraw
    \/ SimSnpsEnterRepeat
    \/ SimSnpsRepeat
    \/ SimSnpsReturn
    \/ \E nsites \in SitesArgs : GetTreeSequence(nsites)

Spec == Init /\ [][Next]_vars

\* A fresh model instance runs one sim_snps call.
NextSnps ==
    \/ \E a \in SnpsArgs : ncalls = 0 /\ SimSnpsCall(a)
    \/ SimSnpsDraw
    \/ SimSnpsEnterRepeat
    \/ SimSnpsRepeat
    \/ SimSnpsReturn

SpecSnps == Init /\ [][NextSnps]_vars

(***************************************************************************)
(* The tensors cell by cell.  Above, a tensor is a list of blocks, each    *)
(* known by the engine call that filled it.  Here a construction is        *)
(* followed by one sim_loci or sim_snps call whose arrays are kept cell by *)
(* cell: an allele is its index in the model's alleles ("ACGT"), and what  *)
(* the engine returns (breakpoints, variant sites with their genotype      *)
(* calls, the ancestral draw) is an input of the step that calls it.       *)
(***************************************************************************)
MaxCode == 1        \* allele codes are 0..MaxCode
MaxVariants == 1    \* variant sites the engine puts on one tree sequence

Codes == 0..MaxCode

\* The elements of a set of numbers in increasing order.
RECURSIVE Ascending(_)
Ascending(S) ==
    IF S = {} THEN <<>>
    ELSE LET m == CHOOSE x \in S : \A y \in S : x <= y
         IN  <<m>> \o Ascending(S \ {m})

\* tree_seq.breakpoints(): from 0 to the sequence length, increasing.
Breakpoints(nsites) ==
    {<<0>> \o Ascending(S) \o <<nsites>> : S \in SUBSET (1..(nsites - 1))}

\* A variant site of a mutated tree sequence; genos is its row of
\* genotype_matrix(alleles=self._alleles), one call per sample node.
Site(position, a, genos) ==
    [exists |-> TRUE, nmuts |-> 1,
     nalleles |-> Cardinality({a} \cup {genos[k] : k \in DOMAIN genos}),
     position |-> position, ancestral_state |-> a, genos |-> genos]

\* Genotype calls of n samples at a site with ancestral state a: one sample
\* carries a derived allele.
Columns(n, a) ==
    {[s \in 1..n |-> IF s = k THEN d ELSE a] : k \in 1..n, d \in Codes \ {a}}

\* An ancestral state with the genotype calls of n samples.
SiteStates(n) == UNION {{[a |-> a, g |-> g] : g \in Columns(n, a)} : a \in Codes}

\* The variant sites the engine can put on nsites positions, by position.
SiteLists(nsites, n) ==
    UNION {
        {[i \in 1..Cardinality(P) |->
            Site(Ascending(P)[i], f[Ascending(P)[i]].a, f[Ascending(P)[i]].g)] :
         f \in [P -> SiteStates(n)]} :
        P \in {Q \in SUBSET (0..(nsites - 1)) : Cardinality(Q) <= MaxVariants}}

\* rng_muts.choice(range(len(alleles)), size=nsites, replace=True, p=...)
RootDraws(nsites) == [1..nsites -> Codes]

\* ms.sim_ancestry(..., sequence_length=nsites, random_seed=seed), with the
\* breakpoints of its trees.
TreeSequence(seed, nsites, breaks) == [seed |-> seed, nsites |-> nsites, breaks |-> breaks]

\* ms.sim_mutations(tree_sequence=ts, random_seed=mseed), with its sites.
MutatedSequence(ts, mseed, sites) == [ts |-> ts, mseed |-> mseed, sites |-> sites]

\* mstree.newick(node_labels=self.tipdict) of tree number tidx.
Newick(ts, tidx, labels) == [ts |-> ts, tidx |-> tidx, node_labels |-> labels]

\* One row for the whole locus whatever the breakpoints: C29 fails under it.
OneRow(lidx, breaks) ==
    <<[locus |-> lidx, start |-> 0, end |-> breaks[Len(breaks)],
       nbps |-> breaks[Len(breaks)], nsnps |-> 0, tidx |-> 0, genealogy |-> <<>>]>>

\* sim_loci, lines 883-902: the rows of one locus, one per pair of
\* consecutive breakpoints.
DataRows(lidx, breaks) ==
    [t \in 1..(Len(breaks) - 1) |->
        [locus |-> lidx, start |-> breaks[t], end |-> breaks[t + 1],
         nbps |-> breaks[t + 1] - breaks[t], nsnps |-> 0, tidx |-> 0,
         genealogy |-> <<>>]]

\* sum(1 for i in mstree.sites()) of tree number t (from 1).
SitesOfTree(mts, t) ==
    Cardinality({i \in DOMAIN mts.sites :
        /\ mts.ts.breaks[t] <= mts.sites[i].position
        /\ mts.sites[i].position < mts.ts.breaks[t + 1]})

\* sim_loci, lines 912-916: the genealogy, index and SNP count of each tree.
TreeRows(data, mts, labels) ==
    [t \in DOMAIN data |->
        [data[t] EXCEPT !.genealogy = Newick(mts.ts, t - 1, labels),
                        !.tidx = t - 1,
                        !.nsnps = SitesOfTree(mts, t)]]

\* The variant site at a position (from 0), if there is one.
HasSite(mts, pos) == \E i \in DOMAIN mts.sites : mts.sites[i].position = pos

SiteAt(mts, pos) == mts.sites[CHOOSE i \in DOMAIN mts.sites : mts.sites[i].position = pos]

\* The ancestral row left as drawn: C30 fails under it.
AsDrawn(mts, root) == root

\* sim_loci, lines 922-933: the ancestral row is the draw, with the
\* ancestral state of every variant written at its position.
AncestralRow(mts, root) ==
    [p \in DOMAIN root |->
        IF HasSite(mts, p - 1) THEN SiteAt(mts, p - 1).ancestral_state ELSE root[p]]

\* sim_loci, lines 928-934: every sample row is a copy of the draw, with
\* the genotype calls of every variant written at its position.
SampleRows(mts, root, n) ==
    [s \in 1..n |->
        [p \in DOMAIN root |->
            IF HasSite(mts, p - 1) THEN SiteAt(mts, p - 1).genos[s] ELSE root[p]]]

\* arr[idx] on the first axis: the rows at the listed (0-based) indices.
TakeRows(arr, idx) == [i \in DOMAIN idx |-> arr[idx[i] + 1]]

\* pd.concat(datalist)
RECURSIVE Concat(_)
Concat(lists) == IF lists = <<>> THEN <<>> ELSE Head(lists) \o Concat(Tail(lists))

\* sim_loci, lines 862-880, cell by cell.
LociCall(nloci, nsites) ==
    /\ pc = "idle"
    /\ dpc = "done"
    /\ ncalls = 0
    /\ pc' = "loci"
    /\ call' = [BlankCall EXCEPT !.name = "sim_loci", !.nloci = nloci, !.nsites = nsites]
    /\ frame' = [BlankFrame EXCEPT
            !.seqarr = [l \in 1..nloci |-> [s \in 1..self_nstips |-> [p \in 1..nsites |-> 0]]],
            !.aseqarr = [l \in 1..nloci |-> [p \in 1..nsites |-> 0]]]
    /\ draws' = <<>>
    /\ ncalls' = ncalls + 1
    /\ UNCHANGED <<demvars, postvars, init_tseed, init_mseed, rng_trees, rng_muts,
                   ts_dict, df, seqs, ancestral_seq, last>>

\* sim_loci, lines 881-941, cell by cell: one pass of the loop over loci.
LociLocus ==
    /\ pc = "loci"
    /\ frame.lidx < call.nloci
    /\ \E fail \in BOOLEAN, breaks \in Breakpoints(call.nsites),
          sites \in SiteLists(call.nsites, self_nstips), root \in RootDraws(call.nsites) :
        LET d == DrawTrees(Streams)
            tree_seq == TreeSequence(d.val, call.nsites, breaks)
            dm == DrawMuts(d.st)
            mutated_ts == MutatedSequence(tree_seq, dm.val, sites)
            da == DrawMuts(dm.st)
            data == TreeRows(DataRows(frame.lidx, breaks), mutated_ts, tipdict)
        IN  IF fail
            THEN /\ SetStreams(d.st)
                 /\ draws' = Append(draws, d.val)
                 /\ Raise /\ UNCHANGED ts_dict
            ELSE /\ SetStreams(da.st)
                 /\ draws' = draws \o <<d.val, dm.val, da.val>>
                 /\ frame' = [frame EXCEPT
                        !.lidx = @ + 1,
                        !.datalist = Append(@, data),
                        !.aseqarr[frame.lidx + 1] = AncestralRow(mutated_ts, root),
                        !.seqarr[frame.lidx + 1] = SampleRows(mutated_ts, root, self_nstips)]
                 /\ ts_dict' = DictPut(ts_dict, frame.lidx, Stored("ts", mutated_ts))
                 /\ UNCHANGED <<pc, last>>
    /\ UNCHANGED <<demvars, postvars, init_tseed, init_mseed, df, seqs, ancestral_seq,
                   call, ncalls>>

\* sim_loci, lines 943-953, cell by cell.
LociReturn ==
    /\ pc = "loci"
    /\ frame.lidx >= call.nloci
    /\ IF frame.datalist = <<>>
       THEN Raise /\ UNCHANGED <<df, seqs, ancestral_seq, rng_trees, rng_muts>>
       ELSE /\ df' = Stored("table", Concat(frame.datalist))
            /\ seqs' = Stored("loci",
                    [l \in DOMAIN frame.seqarr |-> TakeRows(frame.seqarr[l], reorder)])
            /\ ancestral_seq' = Stored("loci", frame.aseqarr)
            /\ \E e \in Entropy : SetStreams(ResetStreams(Streams, e))
            /\ Return
    /\ UNCHANGED <<demvars, postvars, init_tseed, init_mseed, ts_dict, call, draws, ncalls>>

\* sim_snps, lines 1027-1042, cell by cell, with the default limits.
SnpsCall(nsnps) ==
    /\ pc = "idle"
    /\ dpc = "done"
    /\ ncalls = 0
    /\ ncalls' = ncalls + 1
    /\ LET c == [BlankCall EXCEPT
                    !.name = "sim_snps", !.nsnps = nsnps, !.min_alleles = 2,
                    !.max_alleles = OrNoLimit(None), !.min_mutations = 1,
                    !.max_mutations = OrNoLimit(None)]
           d == DrawTrees(Streams)
       IN  /\ ArgsAsserted(c)
           /\ call' = c
           /\ SetStreams(d.st)
           /\ draws' = <<d.val>>
           /\ pc' = "snps"
           /\ frame' = [BlankFrame EXCEPT
                  !.msgen = TreeSeq(d.val, 1, 0),
                  !.seqarr = [s \in 1..self_nstips |-> [i \in 1..nsnps |-> 0]],
                  !.aseqarr = [i \in 1..nsnps |-> 0]]
    /\ UNCHANGED <<demvars, postvars, init_tseed, init_mseed, ts_dict, df, seqs,
                   ancestral_seq, last>>

\* sim_snps, lines 1045-1061 and 1083-1109, cell by cell: one pass of the
\* outer loop.
SnpsSite ==
    /\ pc = "snps"
    /\ frame.lidx # call.nsnps
    /\ frame.attempts < MaxAttempts
    /\ \E fail \in BOOLEAN, sites \in SiteLists(1, self_nstips) :
        LET treeseq == frame.msgen
            dm == DrawMuts(Streams)
            mutated_ts == MutatedSequence(treeseq, dm.val, sites)
            variant == IF sites = <<>> THEN NoVariant ELSE sites[1]
        IN  /\ SetStreams(dm.st)
            /\ draws' = Append(draws, dm.val)
            /\ IF fail
               THEN Raise /\ UNCHANGED ts_dict
               ELSE /\ UNCHANGED <<pc, last>>
                    /\ IF Accepts(variant, call)
                       THEN /\ frame' = [frame EXCEPT
                                !.msgen.rep = @ + 1,
                                !.attempts = @ + 1,
                                !.seqarr = [s \in DOMAIN @ |->
                                    [@[s] EXCEPT ![frame.lidx + 1] = variant.genos[s]]],
                                !.aseqarr[frame.lidx + 1] = variant.ancestral_state,
                                !.datalist = Append(@, Newick(treeseq, 0, tipdict)),
                                !.lidx = @ + 1]
                            /\ ts_dict' = DictPut(ts_dict, frame.lidx, Stored("ts", mutated_ts))
                       ELSE /\ frame' = [frame EXCEPT
                                !.msgen.rep = @ + 1,
                                !.attempts = @ + 1]
                            /\ UNCHANGED ts_dict
    /\ UNCHANGED <<demvars, postvars, init_tseed, init_mseed, df, seqs, ancestral_seq,
                   call, ncalls>>

\* sim_snps, lines 1047-1049 and 1111-1132, cell by cell.
SnpsReturn ==
    /\ pc = "snps"
    /\ frame.lidx = call.nsnps
    /\ df' = Stored("table",
                [i \in 1..call.nsnps |-> Row(i - 1, 1, 1, frame.datalist[i])])
    /\ seqs' = Stored("snps", TakeRows(frame.seqarr, reorder))
    /\ ancestral_seq' = Stored("snps", frame.aseqarr)
    /\ \E e \in Entropy : SetStreams(ResetStreams(Streams, e))
    /\ Return
    /\ UNCHANGED <<demvars, postvars, init_tseed, init_mseed, ts_dict, call, draws, ncalls>>

\* nsamples for the cell-by-cell runs: an int or a mapping of up to 2 items.
CellSamples == {a \in SampleArgs : Len(a.items) <= 2}

CellLoci == {1, 2}

CellSnps == {1, 2}

\* Model(tree, nsamples=..., seed_trees=0) at line 173, before _set_samples.
InitCells ==
    /\ init_tseed = 0
    /\ init_mseed = None
    /\ rng_trees = ResetStreams(NoStreams, None).t
    /\ rng_muts = ResetStreams(NoStreams, None).m
    /\ ts_dict = EmptyDict
    /\ df = NoData
    /\ seqs = NoData
    /\ ancestral_seq = NoData
    /\ pc = "idle"
    /\ call = BlankCall
    /\ frame = BlankFrame
    /\ draws = <<>>
    /\ ncalls = 0
    /\ last = NoCall
    /\ ops = <<>>
    /\ dpc = "set_samples"
    /\ tree = Tree2
    /\ nsamples \in CellSamples
    /\ edges_arg = <<>>
    /\ samples = <<>>
    /\ self_nstips = None
    /\ tipdict = <<>>
    /\ alpha_ordered_names = <<>>
    /\ reorder = <<>>
    /\ admixture_edges = <<>>
    /\ ms_admix = <<>>
    /\ resolver_args = <<>>
    /\ events = <<>>
    /\ eidx = 0
    /\ current = <<>>
    /\ demography = <<>>
    /\ rate = None

\* A construction without admixture edges, then one call.
NextCells ==
    \/ SetSamples
    \/ GetTipNames
    \/ CheckAdmixtureEdges
    \/ GetMigration
    \/ NewDemography
    \/ ApplySplit
    \/ StoreDemography
    \/ \E nloci \in CellLoci, nsites \in SitesArgs : LociCall(nloci, nsites)
    \/ LociLocus
    \/ LociReturn
    \/ \E nsnps \in CellSnps : SnpsCall(nsnps)
    \/ SnpsSite
    \/ SnpsReturn

SpecCells == InitCells /\ [][NextCells]_vars

(***************************************************************************)
(* The calls on the stored data: apply_missing_mask, the tree inference,   *)
(* the distances and the writers.  A model instance holds what no          *)
(* simulation, a sim_trees, a sim_loci or a sim_snps call left in df, seqs *)
(* and ancestral_seq; each call is one step and is entered in ops with the *)
(* data before and after it.  The random mask is an input of the step.     *)
(* TreeInfer, Writer and calculate_pairwise_dist are not part of model.py: *)
(* a call that reaches one of them may return or raise.                    *)
(***************************************************************************)
MaxOps == 2         \* calls on the stored data per model instance
MaskSites == 2      \* sites of a locus in the stored data

\* The code of a masked cell.
Missing == 9

\* A row of n cells marked missing.
AllMissing(n) == [p \in 1..n |-> Missing]

\* self.seqs.ndim: np.array([]) has one axis.
Ndim(s) == CASE s.kind = "loci" -> 3 [] s.kind = "snps" -> 2 [] OTHER -> 1

\* 9 in self.seqs
Contains9(s) ==
    CASE s.kind = "loci" ->
            \E l \in DOMAIN s.data : \E i \in DOMAIN s.data[l] :
                \E p \in DOMAIN s.data[l][i] : s.data[l][i][p] = Missing
      [] s.kind = "snps" ->
            \E i \in DOMAIN s.data : \E k \in DOMAIN s.data[i] : s.data[i][k] = Missing
      [] OTHER -> FALSE

\* any(cut_sites)
AnyCut(a) == a.cut_sites[1] # 0 \/ a.cut_sites[2] # 0

\* The places of [:cut] and of [-cut:] in a row of n cells (from 1).
FirstSites(cut, n) == 1..Min(cut, n)

LastSites(cut, n) == (Max(n - cut, 0) + 1)..n

\* lines 1604-1611: the coverage mask on one locus. With coverage_type
\* 'site' the mask m is a set of (sample, site) cells, otherwise a set of
\* samples whose whole row is marked.
Covered(arr, a, m) ==
    IF a.coverage_type = "site"
    THEN [i \in DOMAIN arr |->
            [p \in DOMAIN arr[i] |-> IF <<i, p>> \in m THEN Missing ELSE arr[i][p]]]
    ELSE [i \in DOMAIN arr |-> IF i \in m THEN AllMissing(Len(arr[i])) ELSE arr[i]]

\* lines 1616-1617 and 1622-1623: every row that differs from the ancestral
\* row at one of the places P is marked missing.
Dropped(arr, anc, P) ==
    [i \in DOMAIN arr |->
        IF \E p \in P : arr[i][p] # anc[p] THEN AllMissing(Len(arr[i])) ELSE arr[i]]

\* lines 1601-1623: one pass of the loop on locus data.
MaskedLocus(arr, anc, a, m) ==
    LET n == Len(anc)
        covered == Covered(arr, a, m)
        cut1 == IF a.cut_sites[1] # 0
                THEN Dropped(covered, anc, FirstSites(a.cut_sites[1], n))
                ELSE covered
    IN  IF a.cut_sites[2] # 0
        THEN Dropped(cut1, anc, LastSites(a.cut_sites[2], n))
        ELSE cut1

\* lines 1604-1606 on a row of SNP data: the mask m is a set of places.
MaskedRow(row, m) == [k \in DOMAIN row |-> IF k \in m THEN Missing ELSE row[k]]

\* No arguments (the calls other than apply_missing_mask).
NoArgs == [coverage |-> 2, cut_sites |-> <<0, 0>>, coverage_type |-> "locus", masks |-> <<>>]

\* A call on the stored data ends: it is entered in ops.
Finish(name, a, status, error, s2, d2) ==
    /\ seqs' = s2
    /\ df' = d2
    /\ ops' = Append(ops,
            [name |-> name, args |-> a, status |-> status, error |-> error,
             before |-> [seqs |-> seqs, df |-> df],
             after |-> [seqs |-> s2, df |-> d2]])
    /\ UNCHANGED <<demvars, init_tseed, init_mseed, rng_trees, rng_muts, ts_dict,
                   ancestral_seq, pc, call, frame, draws, ncalls, last>>

\* The masks rng.binomial can return over a set of places: none of them when
\* coverage is 1.0 (2 halves), all of them when it is 0.0, and otherwise
\* none, one, or all of them.
MasksOver(places, coverage) ==
    CASE coverage = 2 -> {{}}
      [] coverage = 0 -> {places}
      [] OTHER -> {{}, places} \cup {{x} : x \in places}

\* The places the coverage mask of one pass ranges over.
MaskPlaces(s, coverage_type) ==
    CASE s.kind = "snps" -> 1..Len(s.data[1])
      [] s.kind = "loci" /\ coverage_type = "site" -> (1..nstips) \X (1..MaskSites)
      [] OTHER -> 1..nstips

\* The first axis of self.seqs.
Axis0(s) == IF s.kind \in {"loci", "snps"} THEN Len(s.data) ELSE 0

\* The arguments of apply_missing_mask with the masks the generator returns,
\* one per pass of the loop; coverage is in halves.
MaskArgs(s) ==
    UNION {
        {[coverage |-> c, cut_sites |-> cs, coverage_type |-> ct, masks |-> ms] :
            ms \in [1..Axis0(s) -> MasksOver(MaskPlaces(s, ct), c)]} :
        c \in {1, 2}, cs \in {<<0, 0>>, <<1, 0>>, <<0, 1>>, <<2, 1>>},
        ct \in {"locus", "site"}}

\* apply_missing_mask, lines 1583-1623.
ApplyMissingMask ==
    /\ dpc = "off"
    /\ Len(ops) < MaxOps
    /\ \E a \in MaskArgs(seqs) :
        LET name == "apply_missing_mask"
        IN  CASE seqs.kind = "None" ->
                    \* 9 in None
                    Finish(name, a, "raised", "TypeError", seqs, df)
              [] seqs.kind # "None" /\ Contains9(seqs) ->
                    Finish(name, a, "raised", "IpcoalError", seqs, df)
              [] seqs.kind # "None" /\ ~Contains9(seqs) /\ Ndim(seqs) < 2 ->
                    IF AnyCut(a)
                    THEN Finish(name, a, "raised", "IpcoalError", seqs, df)
                    ELSE \* range(self.seqs.shape[0]) is empty
                         Finish(name, a, "returned", "none", seqs, df)
              [] seqs.kind = "snps" /\ ~Contains9(seqs) ->
                    IF AnyCut(a)
                    THEN \* arr[:, :cut1] on the 1-axis row of the first pass
                         Finish(name, a, "raised", "IndexError",
                                [seqs EXCEPT !.data[1] = MaskedRow(@, a.masks[1])], df)
                    ELSE Finish(name, a, "returned", "none",
                                [seqs EXCEPT !.data =
                                    [i \in DOMAIN @ |-> MaskedRow(@[i], a.masks[i])]], df)
              [] seqs.kind = "loci" /\ ~Contains9(seqs) ->
                    Finish(name, a, "returned", "none",
                           [seqs EXCEPT !.data =
                                [l \in DOMAIN @ |->
                                    MaskedLocus(@[l], ancestral_seq.data[l], a, a.masks[l])]],
                           df)

\* self.df.nbps.max()
MaxNbps(d) ==
    CHOOSE n \in {d.data[r].nbps : r \in DOMAIN d.data} :
        \A r \in DOMAIN d.data : d.data[r].nbps <= n

\* self.df["inferred_tree"] = value, on every row
WithInferred(d, value) ==
    [d EXCEPT !.data = [r \in DOMAIN @ |-> [inferred_tree |-> value] @@ @[r]]]

\* infer_gene_trees, lines 1476-1520. The column is added before TreeInfer
\* is built and before self.seqs is tested.
InferGeneTrees ==
    /\ dpc = "off"
    /\ Len(ops) < MaxOps
    /\ LET name == "infer_gene_trees"
       IN  CASE df.kind = "None" ->
                    \* self.df.nbps on None
                    Finish(name, NoArgs, "raised", "AttributeError", seqs, df)
             [] df.kind # "None" /\ MaxNbps(df) = 1 ->
                    Finish(name, NoArgs, "raised", "IpcoalError", seqs, df)
             [] OTHER ->
                    \E outcome \in {"returned", "raised"} :
                        IF outcome = "raised"
                        THEN Finish(name, NoArgs, "raised", "external", seqs,
                                    WithInferred(df, "nan"))
                        ELSE Finish(name, NoArgs, "returned", "none", seqs,
                                    WithInferred(df, IF Axis0(seqs) = 0 THEN "nan" ELSE "tree"))

\* infer_gene_tree_windows, lines 1405-1432: self.ntips is no attribute of
\* the model.
InferGeneTreeWindows ==
    /\ dpc = "off"
    /\ Len(ops) < MaxOps
    /\ LET name == "infer_gene_tree_windows"
       IN  CASE df.kind = "None" ->
                    Finish(name, NoArgs, "raised", "AttributeError", seqs, df)
             [] df.kind # "None" /\ MaxNbps(df) = 1 ->
                    Finish(name, NoArgs, "raised", "IpcoalError", seqs, df)
             [] OTHER ->
                    Finish(name, NoArgs, "raised", "AttributeError", seqs, df)

\* get_pairwise_distances, lines 1534-1537.
GetPairwiseDistances ==
    /\ dpc = "off"
    /\ Len(ops) < MaxOps
    /\ LET name == "get_pairwise_distances"
       IN  IF seqs.kind = "None"
           THEN Finish(name, NoArgs, "raised", "IpcoalError", seqs, df)
           ELSE \E outcome \in {"returned", "raised"} :
                    Finish(name, NoArgs, outcome,
                           IF outcome = "raised" THEN "external" ELSE "none", seqs, df)

\* write_loci_to_hdf5, lines 1157-1164.
WriteLociToHdf5 ==
    /\ dpc = "off"
    /\ Len(ops) < MaxOps
    /\ LET name == "write_loci_to_hdf5"
       IN  CASE seqs.kind = "None" ->
                    \* self.seqs.ndim on None
                    Finish(name, NoArgs, "raised", "AttributeError", seqs, df)
             [] seqs.kind # "None" /\ Ndim(seqs) <= 2 ->
                    Finish(name, NoArgs, "raised", "IpcoalError", seqs, df)
             [] OTHER ->
                    \E outcome \in {"returned", "raised"} :
                        Finish(name, NoArgs, outcome,
                               IF outcome = "raised" THEN "external" ELSE "none", seqs, df)

\* write_snps_to_hdf5 and write_vcf, lines 1184-1187 and 1221-1232.
WriteSnps(name) ==
    /\ dpc = "off"
    /\ Len(ops) < MaxOps
    /\ CASE seqs.kind = "None" ->
                Finish(name, NoArgs, "raised", "AttributeError", seqs, df)
         [] seqs.kind # "None" /\ Ndim(seqs) < 2 ->
                Finish(name, NoArgs, "raised", "IpcoalError", seqs, df)
         [] OTHER ->
                \E outcome \in {"returned", "raised"} :
                    Finish(name, NoArgs, outcome,
                           IF outcome = "raised" THEN "external" ELSE "none", seqs, df)

\* write_loci_to_phylip, write_concat_to_phylip and write_concat_to_nexus,
\* lines 1262-1270, 1294-1298 and 1323-1327: the Writer is called at once.
WritePhylip(name) ==
    /\ dpc = "off"
    /\ Len(ops) < MaxOps
    /\ \E outcome \in {"returned", "raised"} :
        Finish(name, NoArgs, outcome,
               IF outcome = "raised" THEN "external" ELSE "none", seqs, df)

\* The calls that test self.seqs.ndim < 2, and those that hand over to the
\* Writer without a test.
SnpsWriters == {"write_snps_to_hdf5", "write_vcf"}

PhylipWriters == {"write_loci_to_phylip", "write_concat_to_phylip", "write_concat_to_nexus"}

\* A row that differs from the ancestral row at no more than one site.
NearRows(anc) ==
    {anc} \cup UNION {{[anc EXCEPT ![p] = d] : d \in Codes \ {anc[p]}} : p \in DOMAIN anc}

\* The number of sites at which some row differs from the ancestral row.
VariantSites(rows, anc) ==
    Cardinality({p \in DOMAIN anc : \E i \in DOMAIN rows : rows[i][p] # anc[p]})

\* What a sim_loci call of one locus can leave.
OneLocus ==
    {[anc |-> <<anc>>, rows |-> <<rows>>] :
        anc \in [1..MaskSites -> Codes], rows \in [1..nstips -> [1..MaskSites -> Codes]]}

\* What a sim_loci call of two loci can leave, among others.
TwoLoci ==
    LET anc == [p \in 1..MaskSites |-> 0]
    IN  {[anc |-> <<anc, anc>>, rows |-> <<r1, r2>>] :
            r1 \in [1..nstips -> {anc}],
            r2 \in {[i \in 1..nstips |-> IF i = 1 THEN r ELSE anc] : r \in NearRows(anc)}}

\* The attributes after a sim_loci call.
LociData(x) ==
    [df |-> [call |-> 1, kind |-> "table",
             data |-> [l \in DOMAIN x.anc |->
                        Row(l - 1, MaskSites, VariantSites(x.rows[l], x.anc[l]), <<>>)]],
     seqs |-> [call |-> 1, kind |-> "loci", data |-> x.rows],
     ancestral_seq |-> [call |-> 1, kind |-> "loci", data |-> x.anc],
     name |-> "sim_loci"]

\* The attributes after a sim_snps call of 2 SNPs: at every SNP one sample
\* carries a derived allele.
SnpsData ==
    {[df |-> [call |-> 1, kind |-> "table",
              data |-> [k \in 1..2 |-> Row(k - 1, 1, 1, <<>>)]],
      seqs |-> [call |-> 1, kind |-> "snps",
                data |-> [i \in 1..nstips |-> [k \in 1..2 |->
                            IF i = who[k] THEN 1 - anc[k] ELSE anc[k]]]],
      ancestral_seq |-> [call |-> 1, kind |-> "snps", data |-> anc],
      name |-> "sim_snps"] :
        anc \in {<<0, 1>>}, who \in [1..2 -> 1..nstips]}

\* The attributes after a sim_trees call of one locus of nsites sites.
TreesData ==
    {[df |-> [call |-> 1, kind |-> "table", data |-> <<Row(0, nsites, 0, <<>>)>>],
      seqs |-> [call |-> 1, kind |-> "empty", data |-> <<>>],
      ancestral_seq |-> NoData,
      name |-> "sim_trees"] : nsites \in {1, MaskSites}}

\* The attributes before any simulation call.
FreshData == [df |-> NoData, seqs |-> NoData, ancestral_seq |-> NoData, name |-> "none"]

StoredData ==
    {FreshData} \cup TreesData \cup SnpsData
    \cup {LociData(x) : x \in {y \in OneLocus : \A i \in 1..nstips : y.rows[1][i] \in NearRows(y.anc[1])}}
    \cup {LociData(x) : x \in TwoLoci}

\* A model instance with what its (at most one) simulation call stored.
InitMask ==
    /\ init_tseed = None
    /\ init_mseed = None
    /\ rng_trees = ResetStreams(NoStreams, None).t
    /\ rng_muts = ResetStreams(NoStreams, None).m
    /\ ts_dict = EmptyDict
    /\ \E x \in StoredData :
        /\ df = x.df
        /\ seqs = x.seqs
        /\ ancestral_seq = x.ancestral_seq
        /\ ncalls = IF x.name = "none" THEN 0 ELSE 1
        /\ last = IF x.name = "none" THEN NoCall
                  ELSE [name |-> x.name, status |-> "returned", no |-> 1, allok |-> TRUE]
    /\ pc = "idle"
    /\ call = BlankCall
    /\ frame = BlankFrame
    /\ draws = <<>>
    /\ ops = <<>>
    /\ DemographyIdle

NextMask ==
    \/ ApplyMissingMask
    \/ InferGeneTrees
    \/ InferGeneTreeWindows
    \/ GetPairwiseDistances
    \/ WriteLociToHdf5
    \/ \E name \in SnpsWriters : WriteSnps(name)
    \/ \E name \in PhylipWriters : WritePhylip(name)

SpecMask == InitMask /\ [][NextMask]_vars

(***************************************************************************)
(* Claims about the RNG lifecycle and the result storage.                  *)
(***************************************************************************)
SimNames == {"sim_trees", "sim_loci", "sim_snps"}

\* The streams of a freshly constructed model with the same integer seeds.
FreshStreams == [t |-> [seed |-> init_tseed, pos |-> 0], m |-> ResetMuts(init_mseed)]

Returned(names) == pc = "idle" /\ last.status = "returned" /\ last.name \in names

\* C1: whenever sim_trees, sim_loci or sim_snps has returned normally (model
\* built with an integer seed_trees), both RNG streams are in the state they
\* had right after construction.
C1_ResetOnReturn ==
    (Returned(SimNames) /\ init_tseed # None) => Streams = FreshStreams

RECURSIVE Replay(_, _)
\* The seeds the streams st hand out when drawn from in the order of log.
Replay(st, log) ==
    IF log = <<>> THEN <<>>
    ELSE LET d == IF Head(log).stream = "trees" THEN DrawTrees(st) ELSE DrawMuts(st)
         IN  <<d.val>> \o Replay(d.st, Tail(log))

\* C2: with an integer seed_trees, the seeds a simulation call hands to the
\* engine (which determine every genealogy and tensor it produces) are those
\* the same call hands over as the first call on a fresh model, whatever
\* public simulation calls came (and returned) before.
C2_Reproducible ==
    (init_tseed # None /\ last.allok) => draws = Replay(FreshStreams, draws)

\* C3: when sim_trees, sim_loci or sim_snps has raised after drawing from an
\* RNG stream, both streams are back in their initial seeded state.
C3_ResetOnError ==
    (pc = "idle" /\ last.status = "raised" /\ last.name \in SimNames
        /\ draws # <<>> /\ init_tseed # None)
    => Streams = FreshStreams

\* The variant of a stored SNP meets the acceptance conditions of call c.
MeetsConditions(v, c) ==
    /\ v.exists
    /\ v.nmuts >= c.min_mutations
    /\ v.nalleles >= c.min_alleles
    /\ v.nalleles <= c.max_alleles

\* Slots 1..n of arr hold accepted SNPs and the slots after them are untouched.
SlotsAccepted(arr, n, c) ==
    \A i \in 1..Len(arr) :
        IF i <= n THEN arr[i].filled /\ MeetsConditions(arr[i].from.variant, c)
        ELSE arr[i] = Zero

\* C4: while sim_snps runs, the first snpidx slots hold accepted SNPs, one
\* genealogy string each, and no other slot was written (a rejected draw
\* takes no slot and does not advance the counter); when it has returned,
\* df has nsnps rows, seqs nsnps columns, each an accepted SNP.
C4_ExactlyNAccepted ==
    /\ (pc \in {"sim_snps", "sim_snps_repeat"}) =>
            /\ Len(frame.seqarr) = call.nsnps
            /\ Len(frame.datalist) = frame.lidx
            /\ SlotsAccepted(frame.seqarr, frame.lidx, call)
    /\ Returned({"sim_snps"}) =>
            /\ Len(df.data) = call.nsnps
            /\ Len(seqs.data) = call.nsnps
            /\ Len(ancestral_seq.data) = call.nsnps
            /\ SlotsAccepted(seqs.data, call.nsnps, call)

\* C4 witness: sim_snps returned two SNPs after three draws, one rejected.
C4_Witness ==
    /\ Returned({"sim_snps"})
    /\ call.nsnps = 2
    /\ Len(draws) = 4
    /\ Len(seqs.data) = 2

\* The SNPs stored so far by the running or the returned sim_snps call.
StoredSnps ==
    IF pc \in {"sim_snps", "sim_snps_repeat"} THEN frame.seqarr
    ELSE IF Returned({"sim_snps"}) THEN seqs.data
    ELSE <<>>

\* C5: every SNP sim_snps accepted has at most max_mutations mutations.
C5_MaxMutations ==
    \A i \in 1..Len(StoredSnps) :
        StoredSnps[i].filled => StoredSnps[i].from.variant.nmuts <= call.max_mutations

\* C6: with repeat_on_trees, the overlay is repeated on the current genealogy
\* only until it meets the acceptance conditions: after a pass of the inner
\* loop that produced an acceptable overlay, control has left the inner loop.
C6_RepeatUntilAccepted ==
    (pc = "sim_snps_repeat" /\ frame.passes > 0)
    => ~MeetsConditions(frame.mutated_ts.variant, call)

\* The number of loci / SNPs the call asked for.
Asked(c) == IF c.name = "sim_snps" THEN c.nsnps ELSE c.nloci

\* C7: after a top-level simulation call has returned, df, seqs,
\* ancestral_seq and ts_dict hold nothing an earlier call produced, and
\* ts_dict has exactly one entry per locus/SNP of the call.
C7_OnlyLatestCall ==
    Returned(SimNames) =>
        /\ df.call = last.no
        /\ seqs.call = last.no
        /\ ancestral_seq.call \in {0, last.no}
        /\ DOMAIN ts_dict = 0..(Asked(call) - 1)
        /\ \A k \in DOMAIN ts_dict : ts_dict[k].call = last.no

(***************************************************************************)
(* Claims about the demography compiler.                                   *)
(***************************************************************************)
Compiling == dpc \in {"apply", "done", "AttributeError"}

\* C8: the events are applied in non-decreasing time order, and among
\* events of equal time no migration-rate change is applied before a split
\* or an admixture.
C8_EventOrder ==
    Compiling =>
        \A i, j \in 1..Len(events) :
            i < j =>
                /\ events[i].time <= events[j].time
                /\ (events[i].time = events[j].time /\ events[i].type = "migration")
                        => events[j].type = "migration"

Declared(x) == current[x] # Unset /\ \E i \in DOMAIN demography.populations :
                    demography.populations[i] = current[x]

\* Every edge joins two lineages that coexist for a positive length of time.
ProperEdges ==
    \A i \in DOMAIN admixture_edges :
        LET iv == SharedInterval(tree, admixture_edges[i].src, admixture_edges[i].dest)
        IN  iv.lo < iv.hi

\* C9: when a split or admixture event is about to be applied, every node
\* it reads has a current population, declared earlier: the children of the
\* split node, the source and the destination of the admixture.
C9_CurrentDeclared ==
    ProperEdges =>
    /\ Applying("split") =>
            \A i \in DOMAIN tree.children[NextEvent.ancestral[1]] :
                Declared(tree.children[NextEvent.ancestral[1]][i])
    /\ Applying("admixture") =>
            Declared(NextEvent.ancestral[1]) /\ Declared(NextEvent.ancestral[2])

\* The population msprime takes a reference for: an integer is the id of a
\* population, its place in the order of declaration.
Resolve(ref) ==
    IF ref.by = "name" THEN ref.name
    ELSE IF ref.id + 1 \in DOMAIN demography.populations
         THEN demography.populations[ref.id + 1]
    ELSE Unset

\* C10: a migration-rate change just handed to the demography names, as
\* source and destination, the current populations of its two tree nodes.
C10_MigrationNamesCurrent ==
    (/\ dpc = "apply" /\ eidx >= 1 /\ events[eidx].type = "migration"
     /\ Declared(events[eidx].source) /\ Declared(events[eidx].dest)) =>
        LET c == demography.events[Len(demography.events)]
        IN  /\ Resolve(c.source) = current[events[eidx].source]
            /\ Resolve(c.dest) = current[events[eidx].dest]

\* C11: the admixture just handed to the demography carries the proportions
\* [r, 1-r] of its own edge, whatever the other edges are.
C11_OwnProportions ==
    (dpc = "apply" /\ eidx >= 1 /\ events[eidx].type = "admixture") =>
        demography.events[Len(demography.events)].proportions
            = events[eidx].proportions

\* The number of events of a type among the first k events of the list.
RECURSIVE Applied(_, _)
Applied(type, k) ==
    IF k = 0 THEN 0
    ELSE Applied(type, k - 1) + (IF events[k].type = type THEN 1 ELSE 0)

\* C12: the names of the populations declared so far are pairwise distinct
\* (leaf names, split names and admixture replacement names never collide).
C12_DistinctNames ==
    dpc \in {"apply", "done"} =>
        \A i, j \in DOMAIN demography.populations :
            i # j => demography.populations[i] # demography.populations[j]

\* A finished graph with a split and two pulses out of the same node.
C12_Witness ==
    /\ dpc = "done"
    /\ Applied("admixture", eidx) = 2
    /\ events[1].ancestral[1] = events[2].ancestral[1]
    /\ Applied("split", eidx) >= 2

\* The calls that give populations an ancestry.
Links == {i \in DOMAIN demography.events :
            demography.events[i].fn \in {"add_population_split", "add_admixture"}}

\* The number of times a population is listed as derived.
DerivedCount(p) ==
    Cardinality({<<i, k>> \in Links \X (1..2) :
        k \in DOMAIN demography.events[i].derived
        /\ demography.events[i].derived[k] = p})

\* The populations one derived-to-ancestral link above a set of populations.
Above(S) ==
    {demography.events[i].ancestral[k] : <<i, k>> \in
        {<<i, k>> \in Links \X (1..2) :
            /\ k \in DOMAIN demography.events[i].ancestral
            /\ \E d \in DOMAIN demography.events[i].derived :
                    demography.events[i].derived[d] \in S}}

RECURSIVE Ancestry(_, _)
Ancestry(S, n) == IF n = 0 THEN S ELSE Ancestry(S \cup Above(S), n - 1)

RootPopulation == current[CHOOSE x \in Nodes(tree) : Parent(tree, x) = None]

RECURSIVE Subtree(_, _)
Subtree(t, x) ==
    {x} \cup UNION {Subtree(t, t.children[x][i]) : i \in DOMAIN t.children[x]}

\* The number of 'a' characters of a name.
RECURSIVE CountA(_)
CountA(name) ==
    IF name = <<>> THEN 0
    ELSE (IF <<Head(name)>> = ChrA THEN 1 ELSE 0) + CountA(Tail(name))

\* The pulses applied so far whose source lies in a set of nodes.
PulsesFrom(S) ==
    Cardinality({k \in 1..eidx : events[k].type = "admixture"
                                  /\ events[k].ancestral[1] \in S})

IntervalEdges == {i \in DOMAIN ms_admix : ms_admix[i].time[1] # ms_admix[i].time[2]}

\* C14: every interval edge contributes exactly two migration-rate changes,
\* the first at t_start with the edge's rate, the second at t_end with rate
\* 0; and applying a migration-rate change declares no population and
\* changes no node's current tag.
C14_MigrationPairs ==
    /\ [](dpc \in {"apply", "done"} =>
            /\ Applied("migration", Len(events)) = 2 * Cardinality(IntervalEdges)
            /\ \A i \in IntervalEdges :
                    \E j, k \in DOMAIN events :
                        /\ j < k
                        /\ events[j].type = "migration" /\ events[k].type = "migration"
                        /\ events[j].source = ms_admix[i].src
                        /\ events[k].source = ms_admix[i].src
                        /\ events[j].dest = ms_admix[i].dest
                        /\ events[k].dest = ms_admix[i].dest
                        /\ events[j].time = ms_admix[i].time[1]
                        /\ events[j].rate = ms_admix[i].rate
                        /\ events[k].time = ms_admix[i].time[2]
                        /\ events[k].rate = 0)
    /\ [][Applying("migration") =>
            /\ demography'.populations = demography.populations
            /\ current' = current]_vars

\* The end of an interval has just been applied, after a pulse that gave a
\* node a new tag.
C14_Witness ==
    /\ dpc = "apply" /\ eidx >= 3
    /\ events[eidx].type = "migration" /\ events[eidx].end
    /\ Applied("admixture", eidx) >= 1
    /\ demography.events[Len(demography.events)].rate = 0

\* The point a proportion p (in quarters) of the way through the interval
\* shared by the two nodes of edge i.
PointOf(i, p) ==
    LET iv == SharedInterval(tree, admixture_edges[i].src, admixture_edges[i].dest)
    IN  iv.lo + ((p * (iv.hi - iv.lo)) \div 4)

C16_NoneIsMidpointPulse ==
    dpc \in {"apply", "done"} =>
        \A i \in DOMAIN ms_admix :
            (admixture_edges[i].time.type = "None"
             /\ PointOf(i, 0) < PointOf(i, 4)) =>
                /\ ms_admix[i].time = <<PointOf(i, 2), PointOf(i, 2)>>
                /\ \E k \in DOMAIN events :
                        /\ events[k].type = "admixture"
                        /\ events[k].time = PointOf(i, 2)
                        /\ events[k].ancestral = <<ms_admix[i].src, ms_admix[i].dest>>

\* The heights and proportions an edge's own time value stands for: exactly
\* one of the two is set.
OwnArgs(time) ==
    IF time.type = "None" THEN [heights |-> NoneV, props |-> Pair(1, 3)]
    ELSE IF time.type = "int" \/ (time.type = "tuple" /\ time.ints)
    THEN [heights |-> Pair(time.a, time.b), props |-> NoneV]
    ELSE [heights |-> NoneV, props |-> Pair(time.a, time.b)]

\* C17: once the edges have been gone through, every call of the resolver
\* was handed the heights or proportions of its own edge's time value; an
\* edge whose time value has another shape made the construction fail, was
\* never handed to the resolver and has no interval recorded.
C17_OwnTimeArgs ==
    dpc # "get_migration" =>
        \A i \in DOMAIN admixture_edges :
            IF admixture_edges[i].time.type = "other"
            THEN /\ i \notin DOMAIN resolver_args
                 /\ i \notin DOMAIN ms_admix
                 /\ dpc \in {"UnboundLocalError", "IpcoalError"}
            ELSE i \in DOMAIN resolver_args =>
                    resolver_args[i] = OwnArgs(admixture_edges[i].time)

(***************************************************************************)
(* Claims about construction.                                              *)
(***************************************************************************)
\* An element that is no tuple or list, or has not exactly 4 values.
Malformed(e) == e.shape \notin {"tuple", "list"} \/ e.len # 4

\* C18: when any element of the admixture_edges argument is malformed, the
\* construction never gets past the check of the edges: no interval is
\* resolved and no event or population is built.
C18_MalformedFailsFast ==
    (\E i \in DOMAIN edges_arg : Malformed(edges_arg[i])) =>
        /\ dpc \in {"set_samples", "get_tip_names", "check_admixture_edges",
                     "TypeError", "ValueError", "KeyError"}
        /\ resolver_args = <<>>
        /\ ms_admix = <<>>
        /\ events = <<>>
        /\ demography = <<>>

Leaves(t) == {x \in Nodes(t) : IsLeaf(t, x)}

\* C19: when construction succeeds there is exactly one sample set per leaf
\* of the tree, each naming the population n<idx> of a leaf, and nstips is
\* the sum of the counts.
C19_SampleSetPerLeaf ==
    dpc = "done" =>
        /\ Len(samples) = Cardinality(Leaves(tree))
        /\ \A x \in Leaves(tree) :
                Cardinality({i \in DOMAIN samples : samples[i].population = LeafName(x)}) = 1
        /\ \A i \in DOMAIN samples :
                \E x \in Leaves(tree) : samples[i].population = LeafName(x)
        /\ self_nstips = SumSamples(samples)

\* The number of tips before those of sample set i.
TipsBefore(i) == SumSamples(SubSeq(samples, 1, i - 1))

\* The label of the node a sample set names.
LabelOf(i) == NodeName(PopIdx(samples[i].population))

BareAt(i) == tipdict[TipsBefore(i) + 1] = LabelOf(i)

SuffixedAt(i) ==
    \A sdx \in 1..samples[i].num_samples :
        tipdict[TipsBefore(i) + sdx] = LabelOf(i) \o Chr_ \o Digit(sdx - 1)

TipNamesDone == dpc = "check_admixture_edges"

\* C20: in the tip index map a leaf with one sample has its bare label, and
\* a leaf with k > 1 samples the labels label_0 .. label_(k-1), leaf by leaf.
C20_PerLeafLabels ==
    TipNamesDone =>
        /\ Len(tipdict) = self_nstips
        /\ \A i \in DOMAIN samples :
                IF samples[i].num_samples = 1 THEN BareAt(i) ELSE SuffixedAt(i)

\* C20, amended: the tips carry bare labels only when every leaf has exactly
\* one sample; as soon as one leaf has more, the tips of every leaf, those
\* with a single sample included, are labelled label_0 .. label_(k-1).
C20_LabelsAllOrNone ==
    TipNamesDone =>
        /\ Len(tipdict) = self_nstips
        /\ IF \E i \in DOMAIN samples : samples[i].num_samples # 1
           THEN \A i \in DOMAIN samples : SuffixedAt(i)
           ELSE \A i \in DOMAIN samples : BareAt(i)

\* The tip names of a model whose first leaf has one sample and whose second
\* leaf has two.
C20_Witness ==
    /\ TipNamesDone
    /\ Len(samples) = 2
    /\ samples[1].num_samples = 1
    /\ samples[2].num_samples = 2
    /\ Len(tipdict) = 3

(***************************************************************************)
(* Claims about the seeds and the arguments of sim_snps.                   *)
(***************************************************************************)
\* The number of draws for genealogies before place i of the log.
TreesBefore(i) == Cardinality({j \in 1..(i - 1) : draws[j].stream = "trees"})

\* The first call on a seeded model is a sim_loci call.
FirstSimLoci == init_tseed # None /\ ncalls = 1 /\ call.name = "sim_loci"

C26_MutationSeedUsed ==
    IF init_mseed # None
    THEN ~rng_muts.shared /\ rng_muts.seed = init_mseed
    ELSE rng_muts.shared

\* C27: sim_snps with max_alleles=2 and min_alleles=2 is not turned away,
\* and every SNP it stores has at most 2 alleles.
C27_BiallelicAccepted ==
    (/\ call.name = "sim_snps"
     /\ call.min_alleles = 2 /\ call.max_alleles = 2
     /\ call.min_mutations >= 1 /\ call.nsnps >= 0) =>
        /\ ~(pc = "idle" /\ last.status = "raised" /\ draws = <<>>)
        /\ \A i \in 1..frame.lidx : frame.seqarr[i].from.variant.nalleles <= 2

(***************************************************************************)
(* Claims about the tip order and the tensors of sim_loci and sim_snps.    *)
(***************************************************************************)
\* _get_tip_names has returned.
TipsNamed == dpc \notin {"set_samples", "get_tip_names", "TypeError", "KeyError"}

\* A cell-by-cell call has returned and stored its arrays.
CellsReturned(name) ==
    pc = "idle" /\ last.status = "returned" /\ last.name = name /\ seqs.kind # "None"

\* The tip index (from 0) whose label is the i-th sorted label.
SampleOf(i) ==
    CHOOSE j \in 0..(Len(tipdict) - 1) : tipdict[j + 1] = alpha_ordered_names[i]

\* What the engine returned for sample j (from 0) at position pos (from 0)
\* of locus l (from 0): the genotype call at a variant site, otherwise the
\* ancestral state.
EngineCall(l, j, pos) ==
    IF HasSite(ts_dict[l].data, pos)
    THEN SiteAt(ts_dict[l].data, pos).genos[j + 1]
    ELSE ancestral_seq.data[l + 1][pos + 1]

\* C21: the tip index map is a bijection from 0..nstips-1 onto nstips
\* distinct labels, the reorder list is a permutation of 0..nstips-1, and
\* after sim_loci or sim_snps row i of the genotype tensor holds the calls
\* of the sample whose label is the i-th label in sorted order.
C21_RowsInLabelOrder ==
    /\ TipsNamed =>
        /\ Len(tipdict) = self_nstips
        /\ \A j, k \in DOMAIN tipdict : j # k => tipdict[j] # tipdict[k]
        /\ Len(reorder) = self_nstips
        /\ {reorder[i] : i \in DOMAIN reorder} = 0..(self_nstips - 1)
        /\ Len(alpha_ordered_names) = self_nstips
        /\ \A i, k \in DOMAIN alpha_ordered_names :
                i < k => StrLess(alpha_ordered_names[i], alpha_ordered_names[k])
        /\ \A i \in DOMAIN reorder : tipdict[reorder[i] + 1] = alpha_ordered_names[i]
    /\ CellsReturned("sim_loci") =>
        \A l \in 0..(call.nloci - 1), i \in 1..self_nstips, pos \in 0..(call.nsites - 1) :
            seqs.data[l + 1][i][pos + 1] = EngineCall(l, SampleOf(i), pos)
    /\ CellsReturned("sim_snps") =>
        \A k \in 0..(call.nsnps - 1), i \in 1..self_nstips :
            seqs.data[i][k + 1] = ts_dict[k].data.sites[1].genos[SampleOf(i) + 1]

\* sim_loci has returned on a model whose tip index map is not in label
\* order, and the last sample carries a derived allele at a variant site.
C21_Witness ==
    /\ CellsReturned("sim_loci")
    /\ self_nstips >= 2
    /\ reorder[1] # 0
    /\ \E pos \in 0..(call.nsites - 1) :
        /\ HasSite(ts_dict[0].data, pos)
        /\ SiteAt(ts_dict[0].data, pos).genos[self_nstips]
                # SiteAt(ts_dict[0].data, pos).ancestral_state
        /\ seqs.data[1][1][pos + 1] # seqs.data[1][2][pos + 1]

\* The table rows of locus l (from 0), in table order.
RowsOf(l) == SelectSeq(df.data, LAMBDA r : r.locus = l)

\* The sum of a column over rows.
RECURSIVE Total(_, _)
Total(rows, col) == IF rows = <<>> THEN 0 ELSE Head(rows)[col] + Total(Tail(rows), col)

\* C29: after sim_loci(nloci, nsites) the rows of every locus are contiguous
\* half-open segments from 0 to nsites with nbps = end - start, summing to
\* nsites, one row per breakpoint segment; the genotype tensor has shape
\* (nloci, nstips, nsites) and the ancestral tensor (nloci, nsites).
C29_SegmentsAndShapes ==
    CellsReturned("sim_loci") =>
        /\ \A l \in 0..(call.nloci - 1) :
            LET rows == RowsOf(l)
            IN  /\ Len(rows) = Len(ts_dict[l].data.ts.breaks) - 1
                /\ Len(rows) >= 1
                /\ rows[1].start = 0
                /\ rows[Len(rows)].end = call.nsites
                /\ \A t \in 1..(Len(rows) - 1) : rows[t].end = rows[t + 1].start
                /\ \A t \in DOMAIN rows :
                    rows[t].start < rows[t].end /\ rows[t].nbps = rows[t].end - rows[t].start
                /\ Total(rows, "nbps") = call.nsites
        /\ Len(df.data) = Total([l \in 1..call.nloci |-> [n |-> Len(RowsOf(l - 1))]], "n")
        /\ Len(seqs.data) = call.nloci
        /\ \A l \in DOMAIN seqs.data :
            /\ Len(seqs.data[l]) = self_nstips
            /\ \A i \in DOMAIN seqs.data[l] : Len(seqs.data[l][i]) = call.nsites
        /\ Len(ancestral_seq.data) = call.nloci
        /\ \A l \in DOMAIN ancestral_seq.data : Len(ancestral_seq.data[l]) = call.nsites

\* sim_loci has returned two loci, one of them cut in two segments by a
\* breakpoint.
C29_Witness ==
    /\ CellsReturned("sim_loci")
    /\ call.nloci = 2
    /\ Len(RowsOf(0)) = 2
    /\ Len(RowsOf(1)) = 1

\* C30: after sim_loci, at a (locus, site) without a variant every sample's
\* code equals the ancestral code; at a variant site the ancestral tensor
\* holds the variant's ancestral state and every sample its genotype call;
\* and the nsnps column of a locus sums to the number of its variant sites.
C30_CellsFromVariants ==
    CellsReturned("sim_loci") =>
        \A l \in 0..(call.nloci - 1) :
            /\ \A pos \in 0..(call.nsites - 1) :
                IF HasSite(ts_dict[l].data, pos)
                THEN /\ ancestral_seq.data[l + 1][pos + 1]
                            = SiteAt(ts_dict[l].data, pos).ancestral_state
                     /\ \A i \in 1..self_nstips :
                            seqs.data[l + 1][i][pos + 1]
                                = SiteAt(ts_dict[l].data, pos).genos[reorder[i] + 1]
                ELSE \A i \in 1..self_nstips :
                        seqs.data[l + 1][i][pos + 1] = ancestral_seq.data[l + 1][pos + 1]
            /\ Total(RowsOf(l), "nsnps") = Len(ts_dict[l].data.sites)

\* sim_loci has returned a locus of two segments with a variant site in the
\* second one, at which a sample differs from the ancestral state.
C30_Witness ==
    /\ CellsReturned("sim_loci")
    /\ Len(RowsOf(0)) = 2
    /\ RowsOf(0)[1].nsnps = 0
    /\ RowsOf(0)[2].nsnps = 1
    /\ \E i \in 1..self_nstips :
        seqs.data[1][i][call.nsites] # ancestral_seq.data[1][call.nsites]

(***************************************************************************)
(* Claims about the calls on the stored data.                              *)
(***************************************************************************)
MaskCall(op) == op.name = "apply_missing_mask"

\* C22: once apply_missing_mask has completed on a simulated dataset, every
\* further apply_missing_mask call on it fails and leaves the tensor as it
\* was, whatever the arguments of the two calls.
C22_SecondMaskFails ==
    \A i, j \in DOMAIN ops :
        (/\ i < j
         /\ MaskCall(ops[i]) /\ ops[i].status = "returned"
         /\ ops[i].before.seqs.kind \in {"loci", "snps"}
         /\ MaskCall(ops[j])) =>
            /\ ops[j].status = "raised"
            /\ ops[j].after.seqs = ops[j].before.seqs

\* C23: on the 2-axis data of sim_snps, apply_missing_mask with a non-zero
\* cut_sites value is rejected with the library's error before any cell of
\* the tensor is modified.
C23_CutSitesRejectedOnSnps ==
    \A k \in DOMAIN ops :
        (/\ MaskCall(ops[k])
         /\ ops[k].before.seqs.kind = "snps"
         /\ AnyCut(ops[k].args)) =>
            /\ ops[k].status = "raised"
            /\ ops[k].error = "IpcoalError"
            /\ ops[k].after.seqs = ops[k].before.seqs

\* The outcome of the call was decided by model.py, not by the code it
\* hands over to.
DecidedByModel(op) ==
    op.error # "external" /\ (op.status = "returned" => MaskCall(op))

\* C24: without sequence data (before any simulation, and after sim_trees)
\* every call that needs it fails, and leaves df and seqs as they were.
\* Any exception is counted as the failure; a call whose outcome rests on
\* code outside model.py is only held to leaving the state alone.
C24_NoDataFailsFirst ==
    \A k \in DOMAIN ops :
        ops[k].before.seqs.kind \in {"None", "empty"} =>
            /\ DecidedByModel(ops[k]) => ops[k].status = "raised"
            /\ ops[k].after = ops[k].before

\* The places the two cuts look at in a row of n sites.
CutPlaces(cs, n) ==
    (IF cs[1] # 0 THEN FirstSites(cs[1], n) ELSE {})
    \cup (IF cs[2] # 0 THEN LastSites(cs[2], n) ELSE {})

\* The cell is one the coverage mask of the call removed.
Removed(a, l, i, p) ==
    IF a.coverage_type = "site" THEN <<i, p>> \in a.masks[l] ELSE i \in a.masks[l]

\* C28: on locus data a completed apply_missing_mask with cut_sites=(c5, c3)
\* marks a sample's whole row in a locus exactly when the sequence it had
\* before the call differs from the ancestral sequence among the first c5 or
\* the last c3 sites; the cells the coverage mask removed do not count as
\* differences, so every other row only loses the cells that mask removed
\* (none with coverage=1.0); a cut of 0 looks at no site.
C28_DropoutBySimulatedDifference ==
    \A k \in DOMAIN ops :
        (/\ MaskCall(ops[k]) /\ ops[k].status = "returned"
         /\ ops[k].before.seqs.kind = "loci") =>
            \A l \in DOMAIN ops[k].before.seqs.data :
                \A i \in DOMAIN ops[k].before.seqs.data[l] :
                    LET was == ops[k].before.seqs.data[l][i]
                        now == ops[k].after.seqs.data[l][i]
                        anc == ancestral_seq.data[l]
                        a == ops[k].args
                    IN  IF \E p \in CutPlaces(a.cut_sites, Len(anc)) : was[p] # anc[p]
                        THEN now = AllMissing(Len(was))
                        ELSE now = [p \in DOMAIN was |->
                                        IF Removed(a, l, i, p) THEN Missing ELSE was[p]]

====
